---- MODULE Spec2Model ----
(***************************************************************************)
(* StreamingExecutor (bun-streaming-exec): statements are cut out of a     *)
(* character stream at ';', executed one by one in a persistent vm context *)
(* by a background task, and reported through a per-run event queue and a  *)
(* result promise.                                                         *)
(*                                                                         *)
(* Source text is a sequence of one-character strings.  The TypeScript     *)
(* parser, Bun's transpiler and the node:vm script engine are libraries;   *)
(* they are modelled on a small language in which each character is one    *)
(* lexical unit:                                                           *)
(*   ";"   the statement terminator                                        *)
(*   "\n"  a newline (whitespace)                                          *)
(*   "a"   var a = 1, console.log("a")     declares a                      *)
(*   "b"   console.log("b"), var b = a + 1 ReferenceError if a is unbound; *)
(*         NaN if the statement declares a further on                      *)
(*   "w"   console.log("w"), await a promise that outlives the timeout     *)
(*   "p"   text the parser accepts and the transpiler rejects              *)
(*   "q"   a quote: text between two quotes of one line is a string literal*)
(*   "x"   a token no statement can contain (the @ of `const @invalid`)    *)
(*   "v"   console.log("v"), var v = await a timer that outlives the       *)
(*         timeout, then console.log("late") and the units that follow it  *)
(*         in the statement: declares v                                    *)
(*   "t"   fail(), a function of the initial context that throws the host's*)
(*         new Error("Execution timeout")                                  *)
(*   "c"   var console = { log() {} }               declares console      *)
(*   "e"   throw new Error(""), an Error of the context                    *)
(*   "h"   fail0(), a function of the initial context that throws the      *)
(*         host's new Error("")                                            *)
(*   "s"   throw "boom"                                                    *)
(*   "o"   console.log, then throw Object.create(null), a value String()   *)
(*         cannot convert                                                  *)
(***************************************************************************)
EXTENDS Integers, Sequences, FiniteSets, TLC

\* total number of characters the streams of one executor deliver
MaxChars == 3
\* longest chunk a stream yields
MaxChunkLen == 2
\* number of run() calls one executor accepts
MaxRuns == 2
\* number of run() calls one executor rejects
MaxRejected == 1
\* executor instances
NumExecutors == 2
\* number of run() calls one executor accepts under SpecLive
LiveRuns == 1

\* total number of characters the streams deliver under SpecRecovery
RecoveryChars == 6
\* total number of characters the streams of one executor deliver under SpecFaults
FaultChars == 3

\* characters per executor when two executors are driven side by side
PairChars == 2

\* longest output of a statement to which the host still adds, under SpecHost
MaxHostLogs == 2

Executors == 1..NumExecutors

Alphabet == {";", "\n", "a", "b", "w", "p", "q"}

\* the characters of the streams under SpecRecovery
RecoveryAlphabet == {";", "a", "b", "x"}

\* the characters of the streams under SpecFaults
FaultAlphabet == {";", "a", "w", "v", "t", "o"}

\* the characters of the streams under SpecThrown
ThrownAlphabet == {";", "b", "e", "h", "s", "o"}

\* the characters of the streams under SpecConsole
ConsoleAlphabet == {";", "a", "b", "c"}

\* the characters of the texts fed to two executors side by side
PairAlphabet == {";", "a", "b"}

\* the characters String.prototype.trim strips: the WhiteSpace and
\* LineTerminator code points of ECMAScript.  The ones TLA+ has no escape
\* for are written by their code point
LineTerminator == {"\n", "\r", "U+2028", "U+2029"}

SpaceSeparator ==
    {" ", "U+00A0", "U+1680", "U+2000", "U+2001", "U+2002", "U+2003", "U+2004",
     "U+2005", "U+2006", "U+2007", "U+2008", "U+2009", "U+200A", "U+202F",
     "U+205F", "U+3000"}

Whitespace == {"\t", "U+000B", "\f", "U+FEFF"} \cup SpaceSeparator \cup LineTerminator

VARIABLES
    continueOnError,  \* [Executors -> BOOLEAN]   options.continueOnError
    running,          \* [Executors -> BOOLEAN]   this._running
    context,          \* [Executors -> [names -> values]]  this._context, user bindings
    console,          \* [Executors -> sink]      this._context.console
    runs,             \* [Executors -> Seq(run)]  the closures of the accepted run() calls
    rejected          \* [Executors -> Nat]       run() calls that threw

vars == <<continueOnError, running, context, console, runs, rejected>>

----------------------------------------------------------------------------
\* Text

RECURSIVE trimStart(_)
trimStart(s) ==
    IF s # <<>> /\ Head(s) \in Whitespace THEN trimStart(Tail(s)) ELSE s

RECURSIVE trimEnd(_)
trimEnd(s) ==
    IF s # <<>> /\ s[Len(s)] \in Whitespace
    THEN trimEnd(SubSeq(s, 1, Len(s) - 1))
    ELSE s

\* String.prototype.trim
trim(s) == trimEnd(trimStart(s))

\* number of occurrences of c in s
RECURSIVE Count(_, _)
Count(s, c) ==
    IF s = <<>> THEN 0
    ELSE (IF Head(s) = c THEN 1 ELSE 0) + Count(Tail(s), c)

\* the characters of s outside string literals
RECURSIVE CodeOf(_, _)
CodeOf(s, inString) ==
    IF s = <<>> THEN <<>>
    ELSE IF Head(s) = "q" THEN CodeOf(Tail(s), ~inString)
    ELSE IF inString THEN CodeOf(Tail(s), inString)
    ELSE <<Head(s)>> \o CodeOf(Tail(s), inString)

\* a string literal of s is left open: a quoted literal ends at its closing
\* quote and cannot span a line feed or a carriage return
RECURSIVE UnterminatedString(_, _)
UnterminatedString(s, inString) ==
    IF s = <<>> THEN inString
    ELSE IF Head(s) = "q" THEN UnterminatedString(Tail(s), ~inString)
    ELSE IF inString /\ Head(s) \in {"\n", "\r"} THEN TRUE
    ELSE UnterminatedString(Tail(s), inString)

\* ts.createSourceFile(...).parseDiagnostics: an unterminated string literal
\* and a token out of place are the parse errors of the small language
parseDiagnostics(source) ==
    IF UnterminatedString(source, FALSE) THEN <<"Unterminated string literal">>
    ELSE IF Count(CodeOf(source, FALSE), "x") > 0 THEN <<"Declaration expected">>
    ELSE <<>>

parseStatement(source) ==
    IF Len(parseDiagnostics(source)) > 0
    THEN [complete |-> FALSE, sourceFile |-> <<>>]
    ELSE [complete |-> TRUE, sourceFile |-> CodeOf(source, FALSE)]

\* the declared names, in source order
RECURSIVE extractBindingsFromAST(_)
extractBindingsFromAST(sourceFile) ==
    IF sourceFile = <<>> THEN <<>>
    ELSE (IF Head(sourceFile) \in {"a", "b", "v"} THEN <<Head(sourceFile)>>
          ELSE IF Head(sourceFile) = "c" THEN <<"console">>
          ELSE <<>>)
         \o extractBindingsFromAST(Tail(sourceFile))

\* Bun.Transpiler.transformSync behind StreamingExecutor.transpile
transpile(source) ==
    IF Count(CodeOf(source, FALSE), "p") > 0
    THEN [ok |-> FALSE, code |-> <<>>, error |-> "Transform failed"]
    ELSE [ok |-> TRUE, code |-> CodeOf(source, FALSE), error |-> ""]

----------------------------------------------------------------------------
\* Errors and events

NoThrown == [name |-> "none", message |-> ""]

NoError == [type |-> "none", thrown |-> NoThrown, message |-> "", line |-> 0]

ExecutionError(type, thrown, message, line) ==
    [type |-> type, thrown |-> thrown, message |-> message, line |-> line]

ExecutionEvent(statement, line, logs, error) ==
    [statement |-> statement, line |-> line, logs |-> logs, error |-> error]

NoEvent == ExecutionEvent(<<>>, 0, <<>>, NoError)

EventItem(event) == [done |-> FALSE, event |-> event]
DoneItem == [done |-> TRUE, event |-> NoEvent]

----------------------------------------------------------------------------
\* The vm context and one statement's execution

EmptyContext == [n \in {} |-> 0]

NoConsole == [run |-> 0, statement |-> 0]

\* a thrown value: name "Error" is an instance of the host's Error, every
\* other name a value of the context (an error object, a thrown string, an
\* object without prototype); message is its message field, "" if it has
\* none or an empty one
ErrorValue(name, message) == [name |-> name, message |-> message]

\* a value of the user's under the name console: not a sink of the pipeline
UserConsole == [run |-> 0, statement |-> 1]

\* what `console` is to a unit of a statement: `var console` is scoped to
\* the async wrapper, so in a statement that contains it the name is the
\* wrapper's local, undefined until the declaration has run and the
\* user's value after; in every other statement it is the context's
\* binding, the sink executeStatement has just installed
consoleOf(locals, rest) ==
    IF "console" \in DOMAIN locals THEN "user"
    ELSE IF Count(rest, "c") > 0 THEN "undefined"
    ELSE "sink"

\* the values of the small language are the numbers 1, 2, ...; undefined
\* is written 0 and NaN -1
Undefined == 0
NaN == 0 - 1

\* x + 1
PlusOne(x) == IF x \in {Undefined, NaN} THEN NaN ELSE x + 1

\* what a name other than console is to a unit of a statement: a `var` of
\* the statement, in whichever unit, is a local of the async wrapper,
\* undefined until its declaration has run; any other name is looked up in
\* the context
Bound(name, ctx, locals, rest) ==
    name \in DOMAIN locals \/ Count(rest, name) > 0 \/ name \in DOMAIN ctx

ValueOf(name, ctx, locals, rest) ==
    IF name \in DOMAIN locals THEN locals[name]
    ELSE IF Count(rest, name) > 0 THEN Undefined
    ELSE ctx[name]

\* an execution suspended at the timer of a unit v: the units still to run
\* and the locals of its wrapper
Suspended(code, locals) == [code |-> code, locals |-> locals]

\* script.runInContext(context) on `(async () => { code; return { names }; })()`:
\* the promise it returns, the output written to the console of the context,
\* the values of the declared names and, for an execution suspended at a
\* timer, what is left of it to run when the timer fires.  logs is the output
\* written so far
RECURSIVE runInContext(_, _, _, _)
runInContext(code, ctx, locals, logs) ==
    IF code = <<>>
    THEN [state |-> "fulfilled", logs |-> logs, value |-> locals, reason |-> NoThrown,
          late |-> <<>>]
    ELSE LET c == Head(code)
             cons == consoleOf(locals, Tail(code))
             written == IF cons = "sink" THEN Append(logs, c) ELSE logs
         IN IF c \in {"a", "b", "w", "v", "o"} /\ cons = "undefined"
            THEN [state |-> "rejected", logs |-> logs, value |-> EmptyContext,
                  reason |-> ErrorValue("TypeError", "undefined is not an object"),
                  late |-> <<>>]
            ELSE
            CASE c = "a" ->
                   runInContext(Tail(code), ctx, ("a" :> 1) @@ locals, written)
              [] c = "b" ->
                   IF Bound("a", ctx, locals, Tail(code))
                   THEN runInContext(
                            Tail(code), ctx,
                            ("b" :> PlusOne(ValueOf("a", ctx, locals, Tail(code))))
                                @@ locals,
                            written)
                   ELSE [state |-> "rejected", logs |-> written,
                         value |-> EmptyContext,
                         reason |-> ErrorValue("ReferenceError", "a is not defined"),
                         late |-> <<>>]
              [] c = "c" ->
                   runInContext(Tail(code), ctx, ("console" :> 1) @@ locals, logs)
              [] c = "w" ->
                   [state |-> "pending", logs |-> written, value |-> EmptyContext,
                    reason |-> NoThrown, late |-> <<>>]
              [] c = "v" ->
                   [state |-> "pending", logs |-> written, value |-> EmptyContext,
                    reason |-> NoThrown,
                    late |-> <<Suspended(Tail(code), locals)>>]
              [] c = "t" ->
                   [state |-> "rejected", logs |-> logs, value |-> EmptyContext,
                    reason |-> ErrorValue("Error", "Execution timeout"), late |-> <<>>]
              [] c = "e" ->
                   [state |-> "rejected", logs |-> logs, value |-> EmptyContext,
                    reason |-> ErrorValue("vm.Error", ""), late |-> <<>>]
              [] c = "h" ->
                   [state |-> "rejected", logs |-> logs, value |-> EmptyContext,
                    reason |-> ErrorValue("Error", ""), late |-> <<>>]
              [] c = "s" ->
                   [state |-> "rejected", logs |-> logs, value |-> EmptyContext,
                    reason |-> ErrorValue("string boom", ""), late |-> <<>>]
              [] c = "o" ->
                   [state |-> "rejected", logs |-> written, value |-> EmptyContext,
                    reason |-> ErrorValue("Object.create(null)", ""), late |-> <<>>]
              [] OTHER -> runInContext(Tail(code), ctx, locals, logs)

\* the timer of a suspended execution fires: the await returns undefined,
\* "late" is written to whatever console the context has by then and the
\* rest of the statement runs against the context as it is by then
resume(suspended, ctx) ==
    runInContext(suspended.code, ctx, ("v" :> Undefined) @@ suspended.locals,
                 IF consoleOf(suspended.locals, suspended.code) = "sink"
                 THEN <<"late">> ELSE <<>>)

\* a race without a timer: the script's promise as it is
withTimeout_noTimer(promise) == promise

\* withTimeout: Promise.race of the script's promise and the timer; a promise
\* that is still pending when the timer fires loses the race
withTimeout(promise) ==
    IF promise.state = "pending"
    THEN [promise EXCEPT !.state = "rejected",
                         !.reason = ErrorValue("Error", "Execution timeout")]
    ELSE promise

\* String(error) for the thrown values of the small language: a thrown
\* string is its text, an Error of the context with an empty message is the
\* name "Error", any other error object with an empty message is its name
String(error) ==
    CASE error.name = "vm.Error" -> "Error"
      [] error.name = "string boom" -> "boom"
      [] OTHER -> error.name

\* formatErrorMessage: the message of an instance of the host's Error, the
\* non-empty message of any other object, else String(error)
formatErrorMessage(error) ==
    IF error.name = "Error" THEN error.message
    ELSE IF error.message # "" THEN error.message
    ELSE String(error)

\* formatErrorMessage ends in String(error), which throws a TypeError for a
\* value that has no message and no conversion to a primitive
formatErrorMessage_throws(error) ==
    error.message = "" /\ error.name = "Object.create(null)"

\* an executeStatement that reports its errors one line further down
executeStatement_start_nextLine(transpiled, bindings, line, ctx) ==
    [names |-> bindings, line |-> line + 1, stage |-> "race",
     promise |-> runInContext(transpiled, ctx, EmptyContext, <<>>)]

\* executeStatement up to its await: the statement's console is installed and
\* the script runs until it settles or suspends.  stage is where the call
\* stands:
\*   "race"     withTimeout awaits Promise.race
\*   "settled"  withTimeout has returned or thrown, its timer cleared;
\*              executeStatement has not resumed yet
\*   "returned" executeStatement has hoisted and returned, or caught; the
\*              background task has not resumed yet
executeStatement_start(transpiled, bindings, line, ctx) ==
    [names |-> bindings, line |-> line, stage |-> "race",
     promise |-> runInContext(transpiled, ctx, EmptyContext, <<>>)]

\* executeStatement after its await: { logs, error? }
executeStatement_result(exec) ==
    LET settled == withTimeout(exec.promise) IN
    IF settled.state = "fulfilled"
    THEN [logs |-> settled.logs, error |-> NoError]
    ELSE IF settled.reason = ErrorValue("Error", "Execution timeout")
    THEN [logs |-> settled.logs,
          error |-> ExecutionError("timeout", settled.reason, "Execution timeout", exec.line)]
    ELSE [logs |-> settled.logs,
          error |-> ExecutionError("runtime", settled.reason,
                                   formatErrorMessage(settled.reason), exec.line)]

\* a hoist that replaces the context by the names of the statement
executeStatement_hoist_replaces(exec, ctx) ==
    LET settled == withTimeout(exec.promise) IN
    IF settled.state = "fulfilled" /\ Len(exec.names) > 0
    THEN [n \in {exec.names[i] : i \in 1..Len(exec.names)} |-> settled.value[n]]
    ELSE ctx

\* executeStatement after its await: its catch block throws, so the promise
\* of executeStatement rejects
executeStatement_throws(exec) ==
    LET settled == withTimeout(exec.promise) IN
    /\ settled.state = "rejected"
    /\ settled.reason # ErrorValue("Error", "Execution timeout")
    /\ formatErrorMessage_throws(settled.reason)

\* an executeStatement that returns its logs and hoists nothing
executeStatement_hoist_never(exec, ctx) == ctx

\* a hoist that does not ask how the race ended: the declared names are
\* written, undefined (0) where the execution yielded no value
executeStatement_hoist_always(exec, ctx) ==
    LET settled == withTimeout(exec.promise) IN
    IF Len(exec.names) > 0
    THEN [n \in DOMAIN ctx \cup {exec.names[i] : i \in 1..Len(exec.names)} |->
             IF n \in DOMAIN settled.value THEN settled.value[n]
             ELSE IF n \in DOMAIN ctx /\ settled.state = "fulfilled" THEN ctx[n]
             ELSE 0]
    ELSE ctx

\* executeStatement after its await: the context with the declared names
\* hoisted.  The binding named console is kept apart from the other names
\* of the context, in the variable console
executeStatement_hoist(exec, ctx) ==
    LET settled == withTimeout(exec.promise) IN
    IF settled.state = "fulfilled" /\ Len(exec.names) > 0
    THEN [n \in DOMAIN ctx \cup ({exec.names[i] : i \in 1..Len(exec.names)}
                                    \ {"console"}) |->
             IF n \in DOMAIN settled.value THEN settled.value[n] ELSE ctx[n]]
    ELSE ctx

\* executeStatement after its await: the context's binding named console,
\* overwritten by the hoist if the statement declares that name
executeStatement_hoistConsole(exec, binding) ==
    LET settled == withTimeout(exec.promise) IN
    IF /\ settled.state = "fulfilled"
       /\ "console" \in {exec.names[i] : i \in 1..Len(exec.names)}
    THEN UserConsole
    ELSE binding

----------------------------------------------------------------------------
\* One run() call: the closure variables, the background task's position
\* and the event generator's position

NoExec == [names |-> <<>>, line |-> 0, stage |-> "none",
           promise |-> [state |-> "none", logs |-> <<>>, value |-> EmptyContext,
                        reason |-> NoThrown, late |-> <<>>]]

NoResult == [logs |-> <<>>, error |-> NoError]

\* pc: "next"      awaiting the stream's next chunk
\*     "exec"      awaiting executeStatement in the scan loop
\*     "flushexec" awaiting executeStatement for the residual buffer
\*     "closing"   out of the for-await loop, awaiting the iterator's return()
\*     "done"      the finally block has run
\* gen: "idle"     the generator is not started or suspended at its yield
\*      "waiting"  awaiting the promise whose resolver is in queueResolver
\*      "ready"    awaiting a resolved waitForEvent promise
\*      "done"     it has returned after the done item
\*      "closed"   the consumer's return() or throw() has completed it
NewRun(ctx) ==
    [eventQueue |-> <<>>, queueResolver |-> FALSE,
     allLogs |-> <<>>, finalError |-> NoError,
     resolved |-> FALSE, result |-> NoResult,
     buffer |-> <<>>, lineNumber |-> 1, statementStartLine |-> 1,
     pc |-> "next", chunk |-> <<>>, exec |-> NoExec,
     gen |-> "idle", received |-> <<>>,
     \* the timer of withTimeout: "none", "pending" or "cleared"
     timeoutId |-> "none",
     \* the executions the pipeline stopped waiting for, suspended at their timers
     abandoned |-> <<>>,
     \* the consumer has called return() or throw() on the running generator,
     \* which has not come to its yield yet
     returned |-> FALSE,
     \* the error the background task's own promise rejects with
     taskError |-> NoThrown,
     \* history: characters delivered, events pushed, context at the call
     input |-> <<>>, emitted |-> <<>>, ctx0 |-> ctx]

\* a producer that appends and leaves a registered waiter where it is
pushEvent_noWake(run, item) ==
    [run EXCEPT !.eventQueue = Append(@, item),
                !.emitted = IF item.done THEN @ ELSE Append(@, item.event)]

\* pushEvent: append, and if a waiter is registered resolve it and clear
\* the slot
pushEvent(run, item) ==
    [run EXCEPT !.eventQueue = Append(@, item),
                !.queueResolver = FALSE,
                !.gen = IF run.queueResolver THEN "ready" ELSE @,
                !.emitted = IF item.done THEN @ ELSE Append(@, item.event)]

\* a slot that every error overwrites
setFinalError_lastWins(run, error) == [run EXCEPT !.finalError = error]

\* if (!finalError) finalError = error
setFinalError(run, error) ==
    IF run.finalError = NoError THEN [run EXCEPT !.finalError = error] ELSE run

\* a finally block that runs only once the consumer has emptied the queue
finally_whenDrained(run) ==
    IF run.eventQueue = <<>>
    THEN [pushEvent(run, DoneItem) EXCEPT
              !.pc = "done", !.resolved = TRUE,
              !.result = [logs |-> run.allLogs, error |-> run.finalError]]
    ELSE run

\* a finally block that resolves the result and leaves the queue without
\* its finish sentinel
finally_noSentinel(run) ==
    [run EXCEPT !.pc = "done", !.resolved = TRUE,
                !.result = [logs |-> run.allLogs, error |-> run.finalError]]

\* the finally block, without the write to this._running
finally(run) ==
    LET r == pushEvent(run, DoneItem) IN
    [r EXCEPT !.pc = "done", !.resolved = TRUE,
              !.result = [logs |-> run.allLogs, error |-> run.finalError]]

\* a `break` out of the character loop where the code returns
returnFromLoop_break(run) == [run EXCEPT !.pc = "next", !.chunk = <<>>]

\* early return out of the for-await loop: the loop closes the stream's
\* iterator before the finally block runs
returnFromLoop(run) == [run EXCEPT !.pc = "closing", !.chunk = <<>>]

\* the loop closes the stream's iterator: it calls the iterator's return
\* method and awaits what it returns; an iterator without that method is
\* closed at once, and the finally block runs in the same step
asyncIteratorClose(run, hasReturn) ==
    IF run.pc = "closing" /\ ~hasReturn THEN finally(run) ELSE run

\* a bookkeeping that moves the statement's start line at every newline,
\* also inside a statement
trackNewline_always(run, char) ==
    IF char = "\n"
    THEN [run EXCEPT !.lineNumber = @ + 1, !.statementStartLine = run.lineNumber + 1]
    ELSE run

\* the newline bookkeeping at the end of the loop body
trackNewline(run, char) ==
    IF char = "\n"
    THEN [run EXCEPT !.lineNumber = @ + 1,
                     !.statementStartLine =
                         IF trim(run.buffer) = <<>> THEN run.lineNumber + 1 ELSE @]
    ELSE run

\* a parse error that records the line the scan has reached, not the line
\* the statement starts on
parseError_currentLine(run, message) ==
    ExecutionError("parse", ErrorValue("Error", message), message, run.lineNumber)

\* the parse-typed error of the statement in the buffer
parseError(run, message) ==
    ExecutionError("parse", ErrorValue("Error", message), message, run.statementStartLine)

\* the body of `for (const char of chunk)` from the head of run.chunk on, up
\* to the next await: the end of the chunk, an executeStatement or a return
\* F(x), with x evaluated once
Once(F(_), x) == CHOOSE y \in {F(v) : v \in {x}} : TRUE

\* a scan that tries the buffer after every character
atTerminator_everyChar(char, trimmed) == trimmed # <<>>

\* `if (char === ";")` and `if (trimmed)`: the buffer is tried as a statement
atTerminator(char, trimmed) == char = ";" /\ trimmed # <<>>

RECURSIVE scan(_, _, _)
scan(run, ctx, coe) ==
    IF run.chunk = <<>> THEN [run EXCEPT !.pc = "next"]
    ELSE
    LET char == Head(run.chunk)
        r1 == [run EXCEPT !.chunk = Tail(@), !.buffer = Append(@, char)]
        trimmed == trim(r1.buffer)
        parseResult == parseStatement(trimmed)
        transpileResult == transpile(trimmed)
    IN
    IF atTerminator(char, trimmed) /\ parseResult.complete
    THEN IF ~transpileResult.ok
         THEN LET error == parseError(r1, transpileResult.error)
                  r2 == pushEvent(setFinalError(r1, error),
                                  EventItem(ExecutionEvent(trimmed, r1.statementStartLine,
                                                           <<>>, error)))
              IN IF ~coe THEN returnFromLoop(r2)
                 ELSE Once(LAMBDA r : scan(r, ctx, coe),
                           [r2 EXCEPT !.buffer = <<>>,
                                      !.statementStartLine = r2.lineNumber])
         ELSE [r1 EXCEPT !.pc = "exec",
                         !.exec = executeStatement_start(
                                      transpileResult.code,
                                      extractBindingsFromAST(parseResult.sourceFile),
                                      r1.statementStartLine, ctx)]
    ELSE Once(LAMBDA r : scan(r, ctx, coe), trackNewline(r1, char))

\* a scan loop that returns on runtime errors only
afterExecute_runtimeOnly(run, ctx, coe) ==
    LET execResult == executeStatement_result(run.exec)
        trimmed == trim(run.buffer)
        r1 == [run EXCEPT !.allLogs = @ \o execResult.logs, !.exec = NoExec]
        r2 == pushEvent(r1, EventItem(ExecutionEvent(trimmed, run.statementStartLine,
                                                     execResult.logs, execResult.error)))
        r3 == IF execResult.error # NoError THEN setFinalError(r2, execResult.error) ELSE r2
    IN IF execResult.error.type = "runtime" /\ ~coe
       THEN returnFromLoop(r3)
       ELSE Once(LAMBDA r : scan(r, ctx, coe),
                 [r3 EXCEPT !.buffer = <<>>, !.statementStartLine = r3.lineNumber])

\* a scan loop that returns on a timeout whatever the error policy
afterExecute_timeoutStops(run, ctx, coe) ==
    LET execResult == executeStatement_result(run.exec)
        trimmed == trim(run.buffer)
        r1 == [run EXCEPT !.allLogs = @ \o execResult.logs, !.exec = NoExec]
        r2 == pushEvent(r1, EventItem(ExecutionEvent(trimmed, run.statementStartLine,
                                                     execResult.logs, execResult.error)))
        r3 == IF execResult.error # NoError THEN setFinalError(r2, execResult.error) ELSE r2
    IN IF execResult.error # NoError /\ (~coe \/ execResult.error.type = "timeout")
       THEN returnFromLoop(r3)
       ELSE Once(LAMBDA r : scan(r, ctx, coe),
                 [r3 EXCEPT !.buffer = <<>>, !.statementStartLine = r3.lineNumber])

\* a scan loop that keeps the output of successful statements only
afterExecute_dropsErrorLogs(run, ctx, coe) ==
    LET execResult == executeStatement_result(run.exec)
        trimmed == trim(run.buffer)
        r1 == [run EXCEPT !.allLogs = IF execResult.error = NoError
                                      THEN @ \o execResult.logs ELSE @,
                          !.exec = NoExec]
        r2 == pushEvent(r1, EventItem(ExecutionEvent(trimmed, run.statementStartLine,
                                                     execResult.logs, execResult.error)))
        r3 == IF execResult.error # NoError THEN setFinalError(r2, execResult.error) ELSE r2
    IN IF execResult.error # NoError /\ ~coe
       THEN returnFromLoop(r3)
       ELSE Once(LAMBDA r : scan(r, ctx, coe),
                 [r3 EXCEPT !.buffer = <<>>, !.statementStartLine = r3.lineNumber])

\* the scan loop after `await self.executeStatement(...)`, with the context
\* already hoisted
afterExecute(run, ctx, coe) ==
    LET execResult == executeStatement_result(run.exec)
        trimmed == trim(run.buffer)
        r1 == [run EXCEPT !.allLogs = @ \o execResult.logs, !.exec = NoExec]
        r2 == pushEvent(r1, EventItem(ExecutionEvent(trimmed, run.statementStartLine,
                                                     execResult.logs, execResult.error)))
        r3 == IF execResult.error # NoError THEN setFinalError(r2, execResult.error) ELSE r2
    IN IF execResult.error # NoError /\ ~coe
       THEN returnFromLoop(r3)
       ELSE Once(LAMBDA r : scan(r, ctx, coe),
                 [r3 EXCEPT !.buffer = <<>>, !.statementStartLine = r3.lineNumber])

\* a flush that drops a residual buffer that does not parse
flush_dropsIncomplete(run, ctx, coe) ==
    LET trimmed == trim(run.buffer)
        parseResult == parseStatement(trimmed)
        transpileResult == transpile(trimmed)
        lowering == parseError(run, transpileResult.error)
    IN
    IF trimmed # <<>> /\ (coe \/ run.finalError = NoError) /\ parseResult.complete
    THEN IF ~transpileResult.ok
         THEN finally(pushEvent(setFinalError(run, lowering),
                                EventItem(ExecutionEvent(
                                    trimmed, run.statementStartLine, <<>>, lowering))))
         ELSE [run EXCEPT !.pc = "flushexec",
                          !.exec = executeStatement_start(
                                       transpileResult.code,
                                       extractBindingsFromAST(parseResult.sourceFile),
                                       run.statementStartLine, ctx)]
    ELSE finally(run)

\* a flush that tests the buffer, not the trimmed buffer, for emptiness
flush_untrimmed(run, ctx, coe) ==
    LET trimmed == trim(run.buffer)
        parseResult == parseStatement(trimmed)
        transpileResult == transpile(trimmed)
        lowering == parseError(run, transpileResult.error)
        incomplete == parseError(run, "Incomplete statement")
    IN
    IF run.buffer # <<>> /\ (coe \/ run.finalError = NoError)
    THEN IF parseResult.complete
         THEN IF ~transpileResult.ok
              THEN finally(pushEvent(setFinalError(run, lowering),
                                     EventItem(ExecutionEvent(
                                         trimmed, run.statementStartLine, <<>>, lowering))))
              ELSE [run EXCEPT !.pc = "flushexec",
                               !.exec = executeStatement_start(
                                            transpileResult.code,
                                            extractBindingsFromAST(parseResult.sourceFile),
                                            run.statementStartLine, ctx)]
         ELSE finally(pushEvent(setFinalError(run, incomplete),
                                EventItem(ExecutionEvent(
                                    trimmed, run.statementStartLine, <<>>, incomplete))))
    ELSE finally(run)

\* "Handle remaining buffer after stream ends", up to its await or the finally block
flush(run, ctx, coe) ==
    Once(LAMBDA trimmed :
        LET parseResult == parseStatement(trimmed)
            transpileResult == transpile(trimmed)
            lowering == parseError(run, transpileResult.error)
            incomplete == parseError(run, "Incomplete statement")
        IN
        IF trimmed # <<>> /\ (coe \/ run.finalError = NoError)
        THEN IF parseResult.complete
             THEN IF ~transpileResult.ok
                  THEN finally(pushEvent(setFinalError(run, lowering),
                                         EventItem(ExecutionEvent(
                                             trimmed, run.statementStartLine, <<>>, lowering))))
                  ELSE [run EXCEPT !.pc = "flushexec",
                                   !.exec = executeStatement_start(
                                                transpileResult.code,
                                                extractBindingsFromAST(parseResult.sourceFile),
                                                run.statementStartLine, ctx)]
             ELSE finally(pushEvent(setFinalError(run, incomplete),
                                    EventItem(ExecutionEvent(
                                        trimmed, run.statementStartLine, <<>>, incomplete))))
        ELSE finally(run),
        trim(run.buffer))

\* the flush after `await self.executeStatement(...)`
afterFlushExecute(run) ==
    LET execResult == executeStatement_result(run.exec)
        trimmed == trim(run.buffer)
        r1 == [run EXCEPT !.allLogs = @ \o execResult.logs, !.exec = NoExec]
        r2 == pushEvent(r1, EventItem(ExecutionEvent(trimmed, run.statementStartLine,
                                                     execResult.logs, execResult.error)))
        r3 == IF execResult.error # NoError THEN setFinalError(r2, execResult.error) ELSE r2
    IN finally(r3)

----------------------------------------------------------------------------
\* The state machine

\* the chunks a stream can yield
Chunks == UNION {[1..n -> Alphabet] : n \in 1..MaxChunkLen}

RECURSIVE SumLen(_)
SumLen(rs) ==
    IF rs = <<>> THEN 0 ELSE Len(Head(rs).input) + SumLen(Tail(rs))

\* characters delivered so far by the streams handed to executor e
Fed(e) == SumLen(runs[e])

RunIds(e) == 1..Len(runs[e])

\* the executors the specification drives
Driven == {1}

\* the constructor called without options.context: the context has the
\* built-in globals and no binding of the user's
Init ==
    /\ continueOnError \in {f \in [Executors -> BOOLEAN] :
                               \A e \in Executors \ Driven : f[e] = FALSE}
    /\ running = [e \in Executors |-> FALSE]
    /\ context = [e \in Executors |-> EmptyContext]
    /\ console = [e \in Executors |-> NoConsole]
    /\ runs = [e \in Executors |-> <<>>]
    /\ rejected = [e \in Executors |-> 0]

\* a guard that lets every call through
runThrows_never(isRunning) == FALSE

\* the guard of run()
runThrows(isRunning) == isRunning

\* an accepted call that forgets to set the flag
run_call_noFlag(isRunning, ctx) ==
    IF runThrows(isRunning)
    THEN [threw |-> TRUE, running |-> isRunning, closure |-> <<>>]
    ELSE [threw |-> FALSE, running |-> isRunning, closure |-> <<NewRun(ctx)>>]

\* a rejected call that clears the flag before it throws
run_call_resets(isRunning, ctx) ==
    IF runThrows(isRunning)
    THEN [threw |-> TRUE, running |-> FALSE, closure |-> <<>>]
    ELSE [threw |-> FALSE, running |-> TRUE, closure |-> <<NewRun(ctx)>>]

\* run(stream): throws, or sets _running, creates the closure and starts the
\* background task, which asks the stream for its first chunk
run_call(isRunning, ctx) ==
    IF runThrows(isRunning)
    THEN [threw |-> TRUE, running |-> isRunning, closure |-> <<>>]
    ELSE [threw |-> FALSE, running |-> TRUE, closure |-> <<NewRun(ctx)>>]

\* a call of run() on executor e
Run(e, maxRuns) ==
    LET call == run_call(running[e], context[e]) IN
    /\ IF call.threw THEN rejected[e] < MaxRejected ELSE Len(runs[e]) < maxRuns
    /\ rejected' = [rejected EXCEPT ![e] = IF call.threw THEN @ + 1 ELSE @]
    /\ running' = [running EXCEPT ![e] = call.running]
    /\ runs' = [runs EXCEPT ![e] = @ \o call.closure]
    /\ UNCHANGED <<continueOnError, context, console>>

\* a flag that is cleared at the early return, ahead of the finally block
runningAfter_atReturn(isRunning, new) ==
    IF new.pc \in {"closing", "done"} THEN FALSE ELSE isRunning

\* a flag that is cleared only if the consumer has kept up with the events
runningAfter_whenDrained(isRunning, new) ==
    IF new.pc = "done" /\ Len(new.eventQueue) = 1 THEN FALSE ELSE isRunning

\* this._running after a step of the background task: the finally block clears it
runningAfter(isRunning, new) == IF new.pc = "done" THEN FALSE ELSE isRunning

\* the background task awaits executeStatement
Executing(run) == run.pc \in {"exec", "flushexec"}

\* executeStatement awaits withTimeout, which awaits the race
Racing(run) == Executing(run) /\ run.exec.stage = "race"

\* a withTimeout that clears its timer only after a race the statement won
\* by fulfilling
withTimeout_timeoutId_leaks(old, new) ==
    IF Racing(new) THEN "pending"
    ELSE IF Racing(old)
         THEN IF old.exec.promise.state = "fulfilled" THEN "cleared" ELSE "pending"
    ELSE old.timeoutId

\* withTimeout arms its timer when it starts the race and clears it when the
\* race settles, in its try and in its catch
withTimeout_timeoutId(old, new) ==
    IF Racing(new) THEN "pending"
    ELSE IF Racing(old) THEN "cleared"
    ELSE old.timeoutId

\* a running flag that belongs to the class and not to the instance: the
\* finally block of one executor's run clears it for every executor
Background_sharedFlag(e, r, new, ctx) ==
    /\ runs' = [runs EXCEPT ![e][r] =
                    [new EXCEPT !.timeoutId = withTimeout_timeoutId(runs[e][r], new)]]
    /\ running' = [x \in Executors |-> runningAfter(running[x], new)]
    /\ context' = [context EXCEPT ![e] = ctx]
    /\ console' = [console EXCEPT ![e] =
                      LET hoisted == IF /\ runs[e][r].exec.stage = "settled"
                                        /\ new.exec.stage = "returned"
                                     THEN executeStatement_hoistConsole(runs[e][r].exec, @)
                                     ELSE @
                      IN IF Racing(new) /\ ~Racing(runs[e][r])
                         THEN [run |-> r, statement |-> Len(new.emitted) + 1]
                         ELSE hoisted]
    /\ UNCHANGED <<continueOnError, rejected>>

\* a setContextConsole that leaves a console of the user's in place
setContextConsole_keepsUser(binding, sink) ==
    IF binding = UserConsole THEN binding ELSE sink

\* setContextConsole: ctx.console = console, whatever the binding was
setContextConsole(binding, sink) == sink

\* a step of run r's background task, or of the executeStatement or
\* withTimeout call it awaits, ends in the state `new` of its closure.  The
\* hoist loop writes the binding named console when executeStatement
\* returns; setContextConsole installs the sink when a statement starts
Background(e, r, new, ctx) ==
    /\ runs' = [runs EXCEPT ![e][r] =
                    [new EXCEPT !.timeoutId = withTimeout_timeoutId(runs[e][r], new)]]
    /\ running' = [running EXCEPT ![e] = runningAfter(@, new)]
    /\ context' = [context EXCEPT ![e] = ctx]
    /\ console' = [console EXCEPT ![e] =
                      LET hoisted == IF /\ runs[e][r].exec.stage = "settled"
                                        /\ new.exec.stage = "returned"
                                     THEN executeStatement_hoistConsole(runs[e][r].exec, @)
                                     ELSE @
                      IN IF Racing(new) /\ ~Racing(runs[e][r])
                         THEN setContextConsole(
                                  hoisted, [run |-> r, statement |-> Len(new.emitted) + 1])
                         ELSE hoisted]
    /\ UNCHANGED <<continueOnError, rejected>>

\* a loop that does not await executeStatement: it takes the next chunk
\* while the statement is still executing
Feed_whileExecuting(e, r, chunk, maxChars) ==
    /\ runs[e][r].pc \in {"next", "exec"}
    /\ Fed(e) + Len(chunk) <= maxChars
    /\ \E hasReturn \in BOOLEAN :
       \E new \in {asyncIteratorClose(
                      scan([runs[e][r] EXCEPT !.chunk = chunk, !.input = @ \o chunk],
                           context[e], continueOnError[e]),
                      hasReturn)} :
           Background(e, r, new, context[e])

\* a loop whose buffer lives inside the for-await body: every chunk
\* starts with an empty buffer
Feed_freshBuffer(e, r, chunk, maxChars) ==
    /\ runs[e][r].pc = "next"
    /\ Fed(e) + Len(chunk) <= maxChars
    /\ \E hasReturn \in BOOLEAN :
       \E new \in {asyncIteratorClose(
                      scan([runs[e][r] EXCEPT !.chunk = chunk, !.input = @ \o chunk,
                                              !.buffer = <<>>],
                           context[e], continueOnError[e]),
                      hasReturn)} :
           Background(e, r, new, context[e])

\* the stream yields a chunk, out of a supply of maxChars characters; its
\* iterator has a return method or has none
Feed(e, r, chunk, maxChars) ==
    /\ runs[e][r].pc = "next"
    /\ Fed(e) + Len(chunk) <= maxChars
    /\ \E hasReturn \in BOOLEAN :
       \E new \in {asyncIteratorClose(
                      scan([runs[e][r] EXCEPT !.chunk = chunk, !.input = @ \o chunk],
                           context[e], continueOnError[e]),
                      hasReturn)} :
           Background(e, r, new, context[e])

StreamNext(e, r, chunk) == Feed(e, r, chunk, MaxChars)

\* the stream is exhausted
StreamEnd(e, r) ==
    /\ runs[e][r].pc = "next"
    /\ \E new \in {flush(runs[e][r], context[e], continueOnError[e])} :
           Background(e, r, new, context[e])

\* the closure once the race of withTimeout is over: an execution that was
\* still pending goes on by itself when its timer fires
abandon(run) ==
    IF run.exec.promise.state = "pending"
    THEN [run EXCEPT !.abandoned = @ \o run.exec.promise.late]
    ELSE run

\* withTimeout after `await Promise.race(...)`: its finally block clears the
\* timer, and its promise settles as the race did
withTimeout_settles(run) == [abandon(run) EXCEPT !.exec.stage = "settled"]

\* the race of withTimeout is over: the statement's promise has settled or
\* the timer has fired
RaceSettles(e, r) ==
    /\ Racing(runs[e][r])
    /\ \E new \in {withTimeout_settles(runs[e][r])} :
           Background(e, r, new, context[e])

\* executeStatement after `await this.withTimeout(...)`, up to its return
\* or to the throw out of its catch block
executeStatement_returns(run) == [run EXCEPT !.exec.stage = "returned"]

\* executeStatement resumes: it hoists the declared names and returns, or
\* its catch block builds the error
ExecuteReturns(e, r) ==
    /\ Executing(runs[e][r])
    /\ runs[e][r].exec.stage = "settled"
    /\ \E ctx \in {executeStatement_hoist(runs[e][r].exec, context[e])} :
       \E new \in {executeStatement_returns(runs[e][r])} :
           Background(e, r, new, ctx)

\* `await self.executeStatement(...)` throws in the scan loop: the exception
\* leaves the for-await loop, which closes the stream's iterator, and the
\* try block; there is no catch, so after the finally block the task's
\* promise rejects
executeThrows(run) ==
    [returnFromLoop(run) EXCEPT
        !.exec = NoExec,
        !.taskError = ErrorValue("TypeError", "Cannot convert object to primitive value")]

\* `await self.executeStatement(...)` throws in the flush
flushExecuteThrows(run) ==
    finally([run EXCEPT
        !.exec = NoExec,
        !.taskError = ErrorValue("TypeError", "Cannot convert object to primitive value")])

\* the background task resumes after `await self.executeStatement(...)` in
\* the scan loop
ExecuteSettles(e, r) ==
    /\ runs[e][r].pc = "exec"
    /\ runs[e][r].exec.stage = "returned"
    /\ \E hasReturn \in BOOLEAN :
       \E new \in {asyncIteratorClose(
                      IF executeStatement_throws(runs[e][r].exec)
                      THEN executeThrows(runs[e][r])
                      ELSE afterExecute(runs[e][r], context[e], continueOnError[e]),
                      hasReturn)} :
           Background(e, r, new, context[e])

\* the background task resumes after `await self.executeStatement(...)` in
\* the flush
FlushExecuteSettles(e, r) ==
    /\ runs[e][r].pc = "flushexec"
    /\ runs[e][r].exec.stage = "returned"
    /\ \E new \in {IF executeStatement_throws(runs[e][r].exec)
                    THEN flushExecuteThrows(runs[e][r])
                    ELSE afterFlushExecute(runs[e][r])} :
           Background(e, r, new, context[e])

\* a continuation of an async function is waiting in the microtask queue:
\* a statement's promise has settled and the calls that await it have not
\* all resumed
MicrotaskPending(run) ==
    Executing(run) /\ ~(Racing(run) /\ run.exec.promise.state = "pending")

\* the timer of an execution the pipeline stopped waiting for fires, which
\* no timer does while a microtask is pending: the execution resumes and
\* writes to the console of the context, the sink installed last.  What it
\* writes reaches a statement's logs if that statement is still awaiting its
\* own promise.  A resumed execution that comes to another timer is
\* suspended again
AbandonedResumes(e, r) ==
    /\ runs[e][r].abandoned # <<>>
    /\ \A q \in RunIds(e) : ~MicrotaskPending(runs[e][q])
    /\ LET resumed == resume(Head(runs[e][r].abandoned), context[e])
           output == resumed.logs
           sink == console[e]
           rest == [runs[e] EXCEPT ![r].abandoned = Tail(@) \o resumed.late]
       IN runs' = [runs EXCEPT ![e] =
                     IF /\ sink.run \in RunIds(e)
                        /\ Racing(rest[sink.run])
                        /\ rest[sink.run].exec.promise.state = "pending"
                     THEN [rest EXCEPT ![sink.run].exec.promise.logs = @ \o output]
                     ELSE rest]
    /\ UNCHANGED <<continueOnError, running, context, console, rejected>>

\* the error a failing stream raises
StreamError == ErrorValue("Error", "stream failed")

\* a background task that catches the stream's error and records it as the
\* run's error
streamThrows_recordsError(run) ==
    finally(setFinalError([run EXCEPT !.taskError = StreamError],
                          ExecutionError("runtime", StreamError,
                                         formatErrorMessage(StreamError),
                                         run.lineNumber)))

\* `for await (const chunk of stream)` throws: the exception leaves the try
\* block, which has no catch; the finally block runs and the task's promise
\* rejects with the stream's error
streamThrows(run) == finally([run EXCEPT !.taskError = StreamError])

\* the stream raises an error while the background task awaits its next chunk
StreamThrows(e, r) ==
    /\ runs[e][r].pc = "next"
    /\ \E new \in {streamThrows(runs[e][r])} : Background(e, r, new, context[e])

\* the promise of the iterator's return() rejects: the finally block runs
\* and the task's promise rejects, with the error that made the loop exit
\* if there is one and with the iterator's otherwise
iteratorCloseFails(run) ==
    finally([run EXCEPT !.taskError = IF @ = NoThrown THEN StreamError ELSE @])

\* the stream's iterator has been closed after an early return: the
\* promise of its return() has resolved
IteratorClosed(e, r) ==
    /\ runs[e][r].pc = "closing"
    /\ \E new \in {finally(runs[e][r])} : Background(e, r, new, context[e])

\* the promise of the iterator's return() has rejected
IteratorCloseFails(e, r) ==
    /\ runs[e][r].pc = "closing"
    /\ \E new \in {iteratorCloseFails(runs[e][r])} :
           Background(e, r, new, context[e])

\* waitForEvent, called by the generator when the consumer pulls
waitForEvent(run) ==
    IF Len(run.eventQueue) > 0
    THEN [run EXCEPT !.gen = "ready"]
    ELSE [run EXCEPT !.gen = "waiting", !.queueResolver = TRUE]

\* a generator that takes the logs of the event it yields out of the accumulator
takeEvent_drainsLogs(run) ==
    LET item == Head(run.eventQueue) IN
    IF item.done
    THEN [run EXCEPT !.eventQueue = Tail(@), !.gen = "done", !.returned = FALSE]
    ELSE [run EXCEPT !.eventQueue = Tail(@),
                     !.gen = IF run.returned THEN "closed" ELSE "idle",
                     !.returned = FALSE,
                     !.received = Append(@, item.event),
                     !.allLogs = SubSeq(@, Len(item.event.logs) + 1, Len(@))]

\* a generator that reads the head of the queue and leaves it there
takeEvent_peek(run) ==
    LET item == Head(run.eventQueue) IN
    IF item.done
    THEN [run EXCEPT !.eventQueue = Tail(@), !.gen = "done", !.returned = FALSE]
    ELSE [run EXCEPT !.gen = IF run.returned THEN "closed" ELSE "idle",
                     !.returned = FALSE,
                     !.received = Append(@, item.event)]

\* the generator after `await waitForEvent()`: shift, then return or yield.
\* A return() or throw() the consumer called while the generator was
\* running takes effect at the yield and completes the generator
takeEvent(run) ==
    LET item == Head(run.eventQueue) IN
    IF item.done
    THEN [run EXCEPT !.eventQueue = Tail(@), !.gen = "done", !.returned = FALSE]
    ELSE [run EXCEPT !.eventQueue = Tail(@),
                     !.gen = IF run.returned THEN "closed" ELSE "idle",
                     !.returned = FALSE,
                     !.received = Append(@, item.event)]

\* events.return() or events.throw(), what `break`, `return` or an exception
\* inside `for await (const event of events)` calls: a generator that has
\* not started or is suspended at its yield completes; one that is running
\* completes when it comes to its yield
eventsReturn(run) ==
    IF run.gen = "idle"
    THEN [run EXCEPT !.gen = "closed"]
    ELSE [run EXCEPT !.returned = TRUE]

\* the consumer calls next() on the events of run r
EventsNext(e, r) ==
    /\ runs[e][r].gen = "idle"
    /\ runs' = [runs EXCEPT ![e][r] = waitForEvent(@)]
    /\ UNCHANGED <<continueOnError, running, context, console, rejected>>

\* the generator resumes with a queued item
EventsResume(e, r) ==
    /\ runs[e][r].gen = "ready"
    /\ runs' = [runs EXCEPT ![e][r] = takeEvent(@)]
    /\ UNCHANGED <<continueOnError, running, context, console, rejected>>

\* the consumer ends the iteration of the events of run r
EventsReturn(e, r) ==
    /\ runs[e][r].gen \in {"idle", "waiting", "ready"}
    /\ ~runs[e][r].returned
    /\ runs' = [runs EXCEPT ![e][r] = eventsReturn(@)]
    /\ UNCHANGED <<continueOnError, running, context, console, rejected>>

Producer(e) ==
    \E r \in RunIds(e) :
        \/ \E chunk \in Chunks : StreamNext(e, r, chunk)
        \/ StreamEnd(e, r)
        \/ RaceSettles(e, r)
        \/ ExecuteReturns(e, r)
        \/ ExecuteSettles(e, r)
        \/ FlushExecuteSettles(e, r)
        \/ IteratorClosed(e, r)

\* the consumer goes on with the iteration
Pulls(e) ==
    \E r \in RunIds(e) :
        \/ EventsNext(e, r)
        \/ EventsResume(e, r)

Consumer(e) ==
    \/ Pulls(e)
    \/ \E r \in RunIds(e) : EventsReturn(e, r)

Step(e, maxRuns) ==
    \/ Run(e, maxRuns)
    \/ Producer(e)
    \/ Consumer(e)

Next == \E e \in Driven : Step(e, MaxRuns)

Spec == Init /\ [][Next]_vars

\* The same machine with one run() accepted per executor and the scheduling
\* of the event loop: a continuation of the background task that can run
\* does run; the consumer is free to pull or not
NextLive == \E e \in Driven : Step(e, LiveRuns)

SpecLive == Init /\ [][NextLive]_vars /\ \A e \in Driven : WF_vars(Producer(e))

\* The same machine with a consumer that iterates to the end: it does not
\* call return() or throw(), a next() that can be called is called, and a
\* resumed generator runs
NextPull ==
    \E e \in Driven :
        \/ Run(e, LiveRuns)
        \/ Producer(e)
        \/ Pulls(e)

SpecPull ==
    /\ Init
    /\ [][NextPull]_vars
    /\ \A e \in Driven : WF_vars(Producer(e)) /\ WF_vars(Pulls(e))

\* The same machine on longer texts over fewer characters, one run() per
\* executor
RecoveryChunks == UNION {[1..n -> RecoveryAlphabet] : n \in 1..MaxChunkLen}

ProducerRecovery(e) ==
    \E r \in RunIds(e) :
        \/ \E chunk \in RecoveryChunks : Feed(e, r, chunk, RecoveryChars)
        \/ StreamEnd(e, r)
        \/ RaceSettles(e, r)
        \/ ExecuteReturns(e, r)
        \/ ExecuteSettles(e, r)
        \/ FlushExecuteSettles(e, r)
        \/ IteratorClosed(e, r)

NextRecovery ==
    \E e \in Driven :
        \/ Run(e, LiveRuns)
        \/ ProducerRecovery(e)
        \/ Consumer(e)

SpecRecovery == Init /\ [][NextRecovery]_vars

\* The same machine on statements that fail in more ways (a function of the
\* initial context that throws, a thrown value without a message, an
\* execution that goes on after its timeout)
FaultChunks == UNION {[1..n -> FaultAlphabet] : n \in 1..MaxChunkLen}

ProducerFaults(e) ==
    \E r \in RunIds(e) :
        \/ \E chunk \in FaultChunks : Feed(e, r, chunk, FaultChars)
        \/ StreamEnd(e, r)
        \/ RaceSettles(e, r)
        \/ ExecuteReturns(e, r)
        \/ ExecuteSettles(e, r)
        \/ FlushExecuteSettles(e, r)
        \/ IteratorClosed(e, r)
        \/ AbandonedResumes(e, r)

NextFaults ==
    \E e \in Driven :
        \/ Run(e, MaxRuns)
        \/ ProducerFaults(e)
        \/ Consumer(e)

SpecFaults == Init /\ [][NextFaults]_vars

\* The same machine on statements that throw values of different kinds,
\* one run() per executor
ThrownChunks == UNION {[1..n -> ThrownAlphabet] : n \in 1..MaxChunkLen}

ProducerThrown(e) ==
    \E r \in RunIds(e) :
        \/ \E chunk \in ThrownChunks : Feed(e, r, chunk, FaultChars)
        \/ StreamEnd(e, r)
        \/ RaceSettles(e, r)
        \/ ExecuteReturns(e, r)
        \/ ExecuteSettles(e, r)
        \/ FlushExecuteSettles(e, r)
        \/ IteratorClosed(e, r)

NextThrown ==
    \E e \in Driven :
        \/ Run(e, LiveRuns)
        \/ ProducerThrown(e)
        \/ Consumer(e)

SpecThrown == Init /\ [][NextThrown]_vars

\* The same machine on streams that can fail, one run() per executor
ProducerStreamError(e) ==
    \/ Producer(e)
    \/ \E r \in RunIds(e) : StreamThrows(e, r)
    \/ \E r \in RunIds(e) : IteratorCloseFails(e, r)

NextStreamError ==
    \E e \in Driven :
        \/ Run(e, LiveRuns)
        \/ ProducerStreamError(e)
        \/ Consumer(e)

SpecStreamError == Init /\ [][NextStreamError]_vars

\* The same machine on statements that declare the name console, on an
\* executor that may have been given a console in options.context
ConsoleChunks == UNION {[1..n -> ConsoleAlphabet] : n \in 1..MaxChunkLen}

InitConsole ==
    /\ continueOnError \in {f \in [Executors -> BOOLEAN] :
                               \A e \in Executors \ Driven : f[e] = FALSE}
    /\ running = [e \in Executors |-> FALSE]
    /\ context = [e \in Executors |-> EmptyContext]
    /\ console \in {f \in [Executors -> {NoConsole, UserConsole}] :
                       \A e \in Executors \ Driven : f[e] = NoConsole}
    /\ runs = [e \in Executors |-> <<>>]
    /\ rejected = [e \in Executors |-> 0]

ProducerConsole(e) ==
    \E r \in RunIds(e) :
        \/ \E chunk \in ConsoleChunks : Feed(e, r, chunk, FaultChars)
        \/ StreamEnd(e, r)
        \/ RaceSettles(e, r)
        \/ ExecuteReturns(e, r)
        \/ ExecuteSettles(e, r)
        \/ FlushExecuteSettles(e, r)
        \/ IteratorClosed(e, r)

NextConsole ==
    \E e \in Driven :
        \/ Run(e, MaxRuns)
        \/ ProducerConsole(e)
        \/ Consumer(e)

SpecConsole == InitConsole /\ [][NextConsole]_vars

\* Two executor instances, each constructed by its own `new
\* StreamingExecutor()`, with one run() accepted per executor on short texts
PairChunks == UNION {[1..n -> PairAlphabet] : n \in 1..MaxChunkLen}

ProducerPair(e) ==
    \E r \in RunIds(e) :
        \/ \E chunk \in PairChunks : Feed(e, r, chunk, PairChars)
        \/ StreamEnd(e, r)
        \/ RaceSettles(e, r)
        \/ ExecuteReturns(e, r)
        \/ ExecuteSettles(e, r)
        \/ FlushExecuteSettles(e, r)
        \/ IteratorClosed(e, r)

NextPair ==
    \E e \in Executors :
        \/ Run(e, LiveRuns)
        \/ ProducerPair(e)
        \/ Consumer(e)

SpecPair == Init /\ [][NextPair]_vars

\* The same machine on an executor whose host uses the context: the
\* constructor copies options.context into it, and the object the getter
\* `context` returns is the context itself, which the host can write to
\* at any time between two steps of the pipeline
HostValue == 5

\* the bindings a host gives in options.context, the name console aside
OptionsContexts == {EmptyContext, "a" :> HostValue}

\* the constructor: the context holds what options.context held
InitOptions ==
    /\ continueOnError \in {f \in [Executors -> BOOLEAN] :
                               \A e \in Executors \ Driven : f[e] = FALSE}
    /\ running = [e \in Executors |-> FALSE]
    /\ context \in {f \in [Executors -> OptionsContexts] :
                       \A e \in Executors \ Driven : f[e] = EmptyContext}
    /\ console \in {f \in [Executors -> {NoConsole, UserConsole}] :
                       \A e \in Executors \ Driven : f[e] = NoConsole}
    /\ runs = [e \in Executors |-> <<>>]
    /\ rejected = [e \in Executors |-> 0]

\* the names a host writes and deletes
HostNames == {"a", "console"}

\* executor.context[name] = value, for a name other than console
contextSet(ctx, name, value) ==
    IF name = "console" THEN ctx ELSE (name :> value) @@ ctx

\* executor.context.console = value: the binding is the host's value,
\* whatever it was, also the sink of a statement that is executing
contextSetConsole(binding, name) ==
    IF name = "console" THEN UserConsole ELSE binding

\* delete executor.context[name], for a name other than console
contextDelete(ctx, name) == [n \in DOMAIN ctx \ {name} |-> ctx[n]]

\* delete executor.context.console: the context has no console
contextDeleteConsole(binding, name) ==
    IF name = "console" THEN NoConsole ELSE binding

\* the host assigns to a name of the context of executor e
ContextSet(e, name, value) ==
    /\ context' = [context EXCEPT ![e] = contextSet(@, name, value)]
    /\ console' = [console EXCEPT ![e] = contextSetConsole(@, name)]
    /\ UNCHANGED <<continueOnError, running, runs, rejected>>

\* the host deletes a name of the context of executor e
ContextDelete(e, name) ==
    /\ context' = [context EXCEPT ![e] = contextDelete(@, name)]
    /\ console' = [console EXCEPT ![e] = contextDeleteConsole(@, name)]
    /\ UNCHANGED <<continueOnError, running, runs, rejected>>

\* console.log(text) on the sink of a statement: the text is appended to the
\* statement's logs, which executeStatement joins when it returns or
\* catches; what is written to the sink after that is in no logs
sinkLog(run, text) ==
    IF Executing(run) /\ run.exec.stage \in {"race", "settled"}
    THEN [run EXCEPT !.exec.promise.logs = Append(@, text)]
    ELSE run

\* executor.context.console.log(text) by the host: the console of the
\* context is the sink of the statement executeStatement installed it for,
\* a value of the host's, or nothing
contextConsoleLog(rs, binding, text) ==
    IF /\ binding.run \in 1..Len(rs)
       /\ binding.statement = Len(rs[binding.run].emitted) + 1
    THEN [rs EXCEPT ![binding.run] = sinkLog(@, text)]
    ELSE rs

\* the host calls the console of the context of executor e
ContextConsoleLog(e, text) ==
    /\ \A r \in RunIds(e) : Len(runs[e][r].exec.promise.logs) < MaxHostLogs
    /\ runs' = [runs EXCEPT ![e] = contextConsoleLog(@, console[e], text)]
    /\ UNCHANGED <<continueOnError, running, context, console, rejected>>

NextHost ==
    \E e \in Driven :
        \/ Run(e, MaxRuns)
        \/ ProducerPair(e)
        \/ Consumer(e)
        \/ \E name \in HostNames : ContextSet(e, name, HostValue)
        \/ \E name \in HostNames : ContextDelete(e, name)
        \/ ContextConsoleLog(e, "a")

SpecHost == InitOptions /\ [][NextHost]_vars

----------------------------------------------------------------------------
\* Properties

HasError(event) == event.error # NoError

Active(e) == {r \in RunIds(e) : runs[e][r].pc # "done"}

\* C1: a run() call made while the executor is running throws out of run()
\* itself (no closure, event or result comes of it), and a call is accepted
\* only when no run is in progress, so an executor never has two active runs
C1_SingleFlight ==
    /\ [](\A e \in Executors : Cardinality(Active(e)) <= 1)
    /\ [][\A e \in Executors :
             /\ (running[e] /\ rejected'[e] + Len(runs'[e]) # rejected[e] + Len(runs[e]))
                   => (rejected'[e] = rejected[e] + 1 /\ Len(runs'[e]) = Len(runs[e]))
             /\ Len(runs'[e]) > Len(runs[e]) => ~running[e]]_vars

\* a run() call has thrown while a statement of the only active run executes
C1_Witness ==
    /\ rejected[1] = 1
    /\ Active(1) = {1}
    /\ runs[1][1].pc = "exec"

\* C2: a rejected run() call leaves the flag, the context and every closure
\* of the executor (queues, logs, governing error, buffer, line counters,
\* positions of the background task and of the generator) as they were
C2_RejectedCallChangesNothing ==
    [][\A e \in Executors :
          rejected'[e] # rejected[e] =>
              /\ running' = running
              /\ context' = context
              /\ console' = console
              /\ runs' = runs
              /\ continueOnError' = continueOnError]_vars

\* a call was rejected while the in-flight run had queued an event and was
\* still scanning
C2_Witness ==
    /\ rejected[1] = 1
    /\ running[1]
    /\ Len(runs[1]) = 1
    /\ Len(runs[1][1].eventQueue) = 1
    /\ runs[1][1].pc = "next"

\* C3: whatever the consumer does (pulls everything, a prefix or nothing),
\* every accepted run eventually has its result resolved and the running
\* flag cleared, provided the stream is finite and every execution settles
\* or is cut off by the timeout
C3_ResultEventuallyResolves ==
    []<>(\A e \in Executors : \A r \in RunIds(e) :
            runs[e][r].resolved /\ ~running[e])

\* a result resolved with two events queued and the generator never started
C3_Witness ==
    /\ Len(runs[1]) = 1
    /\ runs[1][1].resolved
    /\ ~running[1]
    /\ Len(runs[1][1].emitted) = 2
    /\ runs[1][1].received = <<>>
    /\ runs[1][1].gen = "idle"

\* the run of a whole source text delivered as one chunk to a closure whose
\* events are never pulled, carried to the end of its finally block
RECURSIVE Drive(_, _, _)
Drive(run, ctx, coe) ==
    CASE run.pc = "next" -> Drive(flush(run, ctx, coe), ctx, coe)
      [] run.pc = "exec" ->
            LET hoisted == executeStatement_hoist(run.exec, ctx) IN
            Drive(afterExecute(run, hoisted, coe), hoisted, coe)
      [] run.pc = "flushexec" ->
            Drive(afterFlushExecute(run), executeStatement_hoist(run.exec, ctx), coe)
      [] run.pc = "closing" -> Drive(finally(run), ctx, coe)
      [] OTHER -> [run |-> run, context |-> ctx]

Unpulled(text, ctx, coe) ==
    Drive(scan([NewRun(ctx) EXCEPT !.chunk = text, !.input = text], ctx, coe), ctx, coe)

\* the context in which run r of executor e ended; nothing writes the
\* context between two runs
ContextAfter(e, r) ==
    IF r = Len(runs[e]) THEN context[e] ELSE runs[e][r + 1].ctx0

\* C4: a finished run has the result, the event sequence and the context
\* that the same text gives when nobody pulls, however the consumer pulled
\* and however the text was chunked
C4_ConsumerNonInterference ==
    \A e \in Executors : \A r \in RunIds(e) :
        runs[e][r].pc = "done" =>
            LET ref == Unpulled(runs[e][r].input, runs[e][r].ctx0, continueOnError[e]) IN
            /\ runs[e][r].result = ref.run.result
            /\ runs[e][r].emitted = ref.run.emitted
            /\ ContextAfter(e, r) = ref.context

\* a finished run of two events, one pulled while the run was in progress
\* and one left in the queue
C4_Witness ==
    /\ Len(runs[1]) = 1
    /\ runs[1][1].pc = "done"
    /\ Len(runs[1][1].emitted) = 2
    /\ Len(runs[1][1].received) = 1
    /\ runs[1][1].result.logs # <<>>
    /\ context[1] # EmptyContext

\* C5: once a run's result has resolved, run() is accepted again whatever
\* part of the earlier events was pulled, and the new run starts in the
\* context the earlier runs left: no name hoisted earlier is unbound in it,
\* and a statement of the new run that reads a name an earlier run hoisted
\* reads the hoisted value
C5_NewRunAfterResult ==
    \A e \in Executors :
        /\ (\A r \in RunIds(e) : runs[e][r].resolved) => ~runThrows(running[e])
        /\ \A r1, r2 \in RunIds(e) : \A i \in 1..Len(runs[e][r1].emitted) :
              LET event == runs[e][r1].emitted[i] IN
              (r1 < r2 /\ ~HasError(event)) =>
                  /\ \A k \in 1..Len(extractBindingsFromAST(CodeOf(event.statement, FALSE))) :
                        extractBindingsFromAST(CodeOf(event.statement, FALSE))[k]
                            \in DOMAIN runs[e][r2].ctx0
                  /\ (Count(CodeOf(event.statement, FALSE), "a") > 0 =>
                        /\ \A j \in 1..Len(runs[e][r2].emitted) :
                              runs[e][r2].emitted[j].error.thrown.name # "ReferenceError"
                        /\ (/\ Executing(runs[e][r2])
                            /\ "b" \in DOMAIN runs[e][r2].exec.promise.value) =>
                               runs[e][r2].exec.promise.value["b"] = context[e]["a"] + 1)

\* a second run was accepted with the first run's event never pulled, and
\* its statement read the name the first run hoisted
C5_Witness ==
    /\ Len(runs[1]) = 2
    /\ runs[1][1].received = <<>>
    /\ runs[1][1].gen = "idle"
    /\ Len(runs[1][1].emitted) = 1
    /\ Len(runs[1][2].emitted) = 1
    /\ ~HasError(runs[1][2].emitted[1])
    /\ "b" \in DOMAIN context[1]

\* C6 as stated: while the result or the event sequence of a run is
\* unsettled, run() throws
C6_Original ==
    \A e \in Executors : \A r \in RunIds(e) :
        (~runs[e][r].resolved \/ runs[e][r].gen # "done") => runThrows(running[e])

\* C6: while the result of a run has not resolved, run() throws, and a call
\* made then is rejected; whether the events were pulled plays no part
C6_ThrowsUntilResultResolves ==
    /\ [](\A e \in Executors : \A r \in RunIds(e) :
             ~runs[e][r].resolved => runThrows(running[e]))
    /\ [][\A e \in Executors :
             ((\E r \in RunIds(e) : ~runs[e][r].resolved)
              /\ rejected'[e] + Len(runs'[e]) # rejected[e] + Len(runs[e]))
                 => (rejected'[e] = rejected[e] + 1 /\ runs'[e] = runs[e])]_vars

\* a call was rejected while the consumer was suspended on the empty queue
\* of the unresolved run
C6_Witness ==
    /\ rejected[1] = 1
    /\ Len(runs[1]) = 1
    /\ ~runs[1][1].resolved
    /\ runs[1][1].gen = "waiting"

\* C7 as stated: the flag is set while a run is not finalized and clear
\* whenever a run's result has resolved or its consumer has seen the end
C7_Original ==
    \A e \in Executors : \A r \in RunIds(e) :
        /\ runs[e][r].pc # "done" => running[e]
        /\ (runs[e][r].resolved \/ runs[e][r].gen = "done") => ~running[e]

\* C7: the flag is set while a run is not finalized (awaiting a chunk,
\* executing a statement, closing the stream), and it is clear whenever the
\* result of the executor's latest run has resolved or the consumer of that
\* run has seen the end of its events
C7_RunningFlag ==
    \A e \in Executors : \A r \in RunIds(e) :
        /\ runs[e][r].pc # "done" => running[e]
        /\ (r = Len(runs[e]) /\ (runs[e][r].resolved \/ runs[e][r].gen = "done"))
              => ~running[e]

\* the consumer of a second run has seen the end of its events
C7_Witness ==
    /\ Len(runs[1]) = 2
    /\ runs[1][2].gen = "done"
    /\ Len(runs[1][2].received) >= 1
    /\ ~running[1]

ErrorEvents(events) == {i \in 1..Len(events) : HasError(events[i])}

\* the names a statement declares
Declared(statement) ==
    LET names == extractBindingsFromAST(CodeOf(statement, FALSE)) IN
    {names[k] : k \in 1..Len(names)}

\* the names declared by the statements of executor e that have an event
\* without an error
HoistedNames(e) ==
    UNION {Declared(runs[e][r].emitted[i].statement) :
              <<r, i>> \in {<<r, i>> \in RunIds(e) \X (1..MaxChars) :
                               /\ i <= Len(runs[e][r].emitted)
                               /\ ~HasError(runs[e][r].emitted[i])}}

\* the names declared by the statement of executor e whose executeStatement
\* call has hoisted and returned and whose event is still to be pushed
ReturnedNames(e) ==
    UNION {Declared(trim(runs[e][r].buffer)) :
              r \in {r \in RunIds(e) :
                        /\ Executing(runs[e][r])
                        /\ runs[e][r].exec.stage = "returned"
                        /\ withTimeout(runs[e][r].exec.promise).state = "fulfilled"}}

\* C8: without continueOnError at most one event of a run carries an error
\* and it is the run's last event; once it exists nothing is executing or
\* scanning, and the context holds no name but those of statements that
\* have an event without an error or have just succeeded and are about to
\* get one
C8_StopOnError ==
    \A e \in Executors : ~continueOnError[e] =>
        /\ DOMAIN context[e] \subseteq HoistedNames(e) \cup ReturnedNames(e)
        /\ \A r \in RunIds(e) :
              /\ ErrorEvents(runs[e][r].emitted) \subseteq {Len(runs[e][r].emitted)}
              /\ ErrorEvents(runs[e][r].emitted) # {} =>
                    /\ runs[e][r].pc \in {"closing", "done"}
                    /\ runs[e][r].exec = NoExec

\* the text b;a ran to the end without continueOnError: b failed, a has no
\* event and is not in the context
C8_Witness ==
    /\ ~continueOnError[1]
    /\ Len(runs[1]) = 1
    /\ runs[1][1].pc = "done"
    /\ runs[1][1].input = <<"b", ";", "a">>
    /\ Len(runs[1][1].emitted) = 1
    /\ runs[1][1].emitted[1].error.type = "runtime"
    /\ context[1] = EmptyContext

\* C9: without continueOnError, once a run has an event with an error no
\* further character is read from the stream, no further event is pushed
\* (the residual buffer is not flushed), nothing is added to the logs, and
\* the only step left to the background task is its finalization
C9_NoReadAfterError ==
    [][\A e \in Executors : ~continueOnError[e] =>
          \A r \in RunIds(e) : ErrorEvents(runs[e][r].emitted) # {} =>
              /\ runs'[e][r].input = runs[e][r].input
              /\ runs'[e][r].emitted = runs[e][r].emitted
              /\ runs'[e][r].allLogs = runs[e][r].allLogs
              /\ runs'[e][r].buffer = runs[e][r].buffer
              /\ runs'[e][r].pc \in {runs[e][r].pc, "done"}]_vars

\* the run has returned out of the loop on a failed statement with its text
\* still in the buffer, and is about to finalize
C9_Witness ==
    /\ ~continueOnError[1]
    /\ Len(runs[1]) = 1
    /\ runs[1][1].pc = "closing"
    /\ ErrorEvents(runs[1][1].emitted) # {}
    /\ trim(runs[1][1].buffer) # <<>>
    /\ Len(runs[1][1].input) < MaxChars

RECURSIVE StripWhitespace(_)
StripWhitespace(s) ==
    IF s = <<>> THEN <<>>
    ELSE (IF Head(s) \in Whitespace THEN <<>> ELSE <<Head(s)>>)
         \o StripWhitespace(Tail(s))

RECURSIVE StatementsOf(_)
StatementsOf(events) ==
    IF events = <<>> THEN <<>>
    ELSE Head(events).statement \o StatementsOf(Tail(events))

\* the units of s, outside string literals, that are among cs
RECURSIVE Units(_, _)
Units(s, cs) ==
    IF s = <<>> THEN 0
    ELSE (IF Head(s) \in cs THEN 1 ELSE 0) + Units(Tail(s), cs)

\* the error of an event is one its own statement can produce: a timeout
\* needs a unit that outlives the timer or throws an error with that
\* message, a runtime error a unit that throws
OwnError(event) ==
    /\ event.error.line = event.line
    /\ event.error.type = "timeout" =>
          Units(CodeOf(event.statement, FALSE), {"w", "v", "t"}) > 0
    /\ event.error.type = "runtime" =>
          Units(CodeOf(event.statement, FALSE), {"b", "e", "h", "s", "o", "t"}) > 0
    /\ event.error.type = "parse" =>
          \/ Count(CodeOf(event.statement, FALSE), "p") > 0
          \/ UnterminatedString(event.statement, FALSE)

\* C10: with continueOnError no error makes the run return early; a finished
\* run has attempted all of its text, each span once (the events' statements
\* are the input, whitespace aside), every event with an error carries the
\* error of its own statement, and the names of every statement without an
\* error are in the context
C10_ContinueOnError ==
    \A e \in Executors : continueOnError[e] =>
        \A r \in RunIds(e) :
            /\ runs[e][r].pc # "closing"
            /\ runs[e][r].pc = "done" =>
                  StripWhitespace(StatementsOf(runs[e][r].emitted))
                      = StripWhitespace(runs[e][r].input)
            /\ \A i \in 1..Len(runs[e][r].emitted) :
                  LET event == runs[e][r].emitted[i] IN
                  IF HasError(event) THEN OwnError(event)
                  ELSE Declared(event.statement) \subseteq DOMAIN context[e]

\* with continueOnError a run whose first statement timed out went on to
\* execute the next one and hoist its name
C10_Witness ==
    /\ continueOnError[1]
    /\ Len(runs[1]) = 1
    /\ runs[1][1].pc = "done"
    /\ Len(runs[1][1].emitted) = 2
    /\ runs[1][1].emitted[1].error.type = "timeout"
    /\ ~HasError(runs[1][1].emitted[2])
    /\ "a" \in DOMAIN context[1]

\* the texts a; x; c and a; x; c; with c a valid statement: a valid
\* statement, a terminated span of invalid text, another valid statement
C11_Texts ==
    {<<"a", ";", "x", ";", c>> \o t : <<c, t>> \in {"a", "b"} \X {<<>>, <<";">>}}

\* C11: with continueOnError, a finished run of a valid statement, a
\* terminated span of invalid text and another valid statement has three
\* events: the first statement without an error, the invalid span alone with
\* a parse error, and the last statement, executed
C11_ContinuesAfterInvalidText ==
    \A e \in Executors : continueOnError[e] =>
        \A r \in RunIds(e) :
            (runs[e][r].pc = "done" /\ runs[e][r].input \in C11_Texts) =>
                LET events == runs[e][r].emitted IN
                /\ Len(events) = 3
                /\ events[1].statement = <<"a", ";">>
                /\ ~HasError(events[1])
                /\ events[2].statement = <<"x", ";">>
                /\ events[2].error.type = "parse"
                /\ events[3].statement = trim(SubSeq(runs[e][r].input, 5, Len(runs[e][r].input)))
                /\ events[3].error.type # "parse"

\* the error of the earliest event that carries one
FirstError(events) ==
    IF ErrorEvents(events) = {} THEN NoError
    ELSE events[CHOOSE i \in ErrorEvents(events) :
                    \A j \in ErrorEvents(events) : i <= j].error

\* C12: under both error policies the governing error is at every moment
\* the error of the earliest event that carries one (none if no event does),
\* and the resolved result carries exactly it: type, thrown value, message
\* and line
C12_FirstErrorWins ==
    \A e \in Executors : \A r \in RunIds(e) :
        /\ runs[e][r].finalError = FirstError(runs[e][r].emitted)
        /\ runs[e][r].resolved =>
              /\ runs[e][r].result.error = FirstError(runs[e][r].emitted)
              /\ (runs[e][r].result.error = NoError) = (ErrorEvents(runs[e][r].emitted) = {})

\* with continueOnError a timeout was followed by a runtime error, and the
\* result carries the timeout
C12_Witness ==
    /\ continueOnError[1]
    /\ Len(runs[1]) = 1
    /\ runs[1][1].resolved
    /\ Len(runs[1][1].emitted) = 2
    /\ runs[1][1].emitted[1].error.type = "timeout"
    /\ runs[1][1].emitted[2].error.type = "runtime"
    /\ runs[1][1].result.error = runs[1][1].emitted[1].error

\* the logs of the events, concatenated in emission order
RECURSIVE LogsOf(_)
LogsOf(events) ==
    IF events = <<>> THEN <<>> ELSE Head(events).logs \o LogsOf(Tail(events))

\* C13: under both error policies the accumulated logs are at every moment
\* the logs of the events pushed so far, concatenated in emission order,
\* events with an error included, and the resolved result carries exactly
\* that concatenation
C13_LogsAreConcatenation ==
    \A e \in Executors : \A r \in RunIds(e) :
        /\ runs[e][r].allLogs = LogsOf(runs[e][r].emitted)
        /\ runs[e][r].resolved => runs[e][r].result.logs = LogsOf(runs[e][r].emitted)

\* a statement wrote output and then failed, the next one wrote output and
\* succeeded, and the result has both outputs in that order
C13_Witness ==
    /\ continueOnError[1]
    /\ Len(runs[1]) = 1
    /\ runs[1][1].resolved
    /\ Len(runs[1][1].emitted) = 2
    /\ HasError(runs[1][1].emitted[1])
    /\ runs[1][1].emitted[1].logs = <<"b">>
    /\ runs[1][1].emitted[2].logs = <<"a">>
    /\ runs[1][1].result.logs = <<"b", "a">>

IsPrefix(s, t) == Len(s) <= Len(t) /\ SubSeq(t, 1, Len(s)) = s

\* the call stage of the execution run r awaits moves from `from` to `to`
\* and nothing else of the execution changes
Advances(e, r, from, to) ==
    /\ Executing(runs[e][r])
    /\ runs[e][r].exec.stage = from
    /\ runs'[e][r].pc = runs[e][r].pc
    /\ runs'[e][r].exec = [runs[e][r].exec EXCEPT !.stage = to]

\* C14: the events are the spans of the input in source order; an execution
\* is in flight only while the background task awaits it, and it is the
\* execution of the statement after the last event; until the task resumes
\* no character is read, no event is appended and no other execution
\* starts; the context changes only when executeStatement returns, by the
\* names of that statement and no other and only if it succeeded; the step
\* in which the task resumes appends the event of that statement first
C14_StrictSourceOrder ==
    /\ [](\A e \in Executors : \A r \in RunIds(e) :
             /\ IsPrefix(StripWhitespace(StatementsOf(runs[e][r].emitted)),
                         StripWhitespace(runs[e][r].input))
             /\ (runs[e][r].exec # NoExec) = Executing(runs[e][r])
             /\ (Executing(runs[e][r]) /\ runs[e][r].exec.stage # "returned") =>
                   console[e] = [run |-> r, statement |-> Len(runs[e][r].emitted) + 1])
    /\ [][\A e \in Executors : \A r \in RunIds(e) :
             Executing(runs[e][r]) =>
                   \/ /\ runs'[e][r].input = runs[e][r].input
                      /\ runs'[e][r].emitted = runs[e][r].emitted
                      /\ runs'[e][r].exec = runs[e][r].exec
                      /\ runs'[e][r].buffer = runs[e][r].buffer
                      /\ context'[e] = context[e]
                   \/ /\ Advances(e, r, "race", "settled")
                      /\ runs'[e][r].input = runs[e][r].input
                      /\ runs'[e][r].emitted = runs[e][r].emitted
                      /\ runs'[e][r].buffer = runs[e][r].buffer
                      /\ context'[e] = context[e]
                   \/ /\ Advances(e, r, "settled", "returned")
                      /\ runs'[e][r].input = runs[e][r].input
                      /\ runs'[e][r].emitted = runs[e][r].emitted
                      /\ runs'[e][r].buffer = runs[e][r].buffer
                      /\ \A n \in DOMAIN context'[e] :
                            (n \notin DOMAIN context[e] \/ context'[e][n] # context[e][n])
                               => /\ n \in Declared(trim(runs[e][r].buffer))
                                  /\ withTimeout(runs[e][r].exec.promise).state = "fulfilled"
                   \/ /\ runs[e][r].exec.stage = "returned"
                      /\ runs'[e][r].input = runs[e][r].input
                      /\ Len(runs'[e][r].emitted) > Len(runs[e][r].emitted)
                      /\ IsPrefix(runs[e][r].emitted, runs'[e][r].emitted)
                      /\ runs'[e][r].emitted[Len(runs[e][r].emitted) + 1].statement
                            = trim(runs[e][r].buffer)
                      /\ HasError(runs'[e][r].emitted[Len(runs[e][r].emitted) + 1])
                            = (withTimeout(runs[e][r].exec.promise).state # "fulfilled")
                      /\ context'[e] = context[e]]_vars
    /\ [][\A e \in Executors :
             (\A r \in RunIds(e) : ~Executing(runs[e][r])) => context'[e] = context[e]]_vars

\* the second statement of a run is executing: the first has its event and
\* its name is in the context
C14_Witness ==
    /\ Len(runs[1]) = 1
    /\ runs[1][1].pc = "exec"
    /\ Len(runs[1][1].emitted) = 1
    /\ console[1] = [run |-> 1, statement |-> 2]
    /\ "a" \in DOMAIN context[1]

\* the events waiting in a queue, in queue order
RECURSIVE QueuedEvents(_)
QueuedEvents(queue) ==
    IF queue = <<>> THEN <<>>
    ELSE (IF Head(queue).done THEN <<>> ELSE <<Head(queue).event>>)
         \o QueuedEvents(Tail(queue))

\* C15: at every moment the events the consumer has received, followed by
\* the events waiting in the queue, are the events the producer appended,
\* in append order; the finish sentinel is in the queue only as its last
\* item and only once the run is finalized; a consumer whose sequence has
\* ended has received every event; and a consumer that keeps pulling does
\* reach that end
C15_FifoExactlyOnce ==
    /\ [](\A e \in Executors : \A r \in RunIds(e) :
             /\ runs[e][r].received \o QueuedEvents(runs[e][r].eventQueue)
                   = runs[e][r].emitted
             /\ \A i \in 1..Len(runs[e][r].eventQueue) :
                   runs[e][r].eventQueue[i].done =>
                       (i = Len(runs[e][r].eventQueue) /\ runs[e][r].pc = "done")
             /\ runs[e][r].gen = "done" =>
                   /\ runs[e][r].pc = "done"
                   /\ runs[e][r].eventQueue = <<>>
                   /\ runs[e][r].received = runs[e][r].emitted)
    /\ []<>(\A e \in Executors : \A r \in RunIds(e) :
               runs[e][r].gen = "done" /\ runs[e][r].received = runs[e][r].emitted)

\* the consumer is suspended on the empty queue after it has received the
\* first event, and the second statement is still executing
C15_Witness ==
    /\ Len(runs[1]) = 1
    /\ runs[1][1].gen = "waiting"
    /\ Len(runs[1][1].received) = 1
    /\ runs[1][1].eventQueue = <<>>
    /\ runs[1][1].pc \in {"exec", "flushexec"}

\* the run of a closure whose events are never pulled over the chunks of a
\* stream, carried to the end of its finally block
RECURSIVE DriveChunks(_, _, _, _)
DriveChunks(run, ctx, coe, chunks) ==
    CASE run.pc = "next" ->
            IF chunks = <<>> THEN DriveChunks(flush(run, ctx, coe), ctx, coe, chunks)
            ELSE DriveChunks(scan([run EXCEPT !.chunk = Head(chunks),
                                              !.input = @ \o Head(chunks)], ctx, coe),
                             ctx, coe, Tail(chunks))
      [] run.pc = "exec" ->
            LET hoisted == executeStatement_hoist(run.exec, ctx) IN
            DriveChunks(afterExecute(run, hoisted, coe), hoisted, coe, chunks)
      [] run.pc = "flushexec" ->
            DriveChunks(afterFlushExecute(run), executeStatement_hoist(run.exec, ctx),
                        coe, chunks)
      [] run.pc = "closing" -> DriveChunks(finally(run), ctx, coe, chunks)
      [] OTHER -> [run |-> run, context |-> ctx]

\* a text split into chunks of one character
CharByChar(text) == [i \in 1..Len(text) |-> <<text[i]>>]

\* what the claim compares of an event
Projection(events) ==
    [i \in 1..Len(events) |->
        [statement |-> events[i].statement, line |-> events[i].line,
         logs |-> events[i].logs, type |-> events[i].error.type]]

\* C16: however the stream split the text a run has read, the events of the
\* run so far (statement text, line, logs, error type) are the first events
\* the same text gives when it is delivered one character per chunk and
\* when it is delivered as a single chunk, and a finished run has exactly
\* those events
C16_ChunkingInvariance ==
    \A e \in Executors : \A r \in RunIds(e) :
        LET run == runs[e][r]
            single == DriveChunks(NewRun(run.ctx0), run.ctx0, continueOnError[e],
                                  <<run.input>>).run.emitted
            chars == DriveChunks(NewRun(run.ctx0), run.ctx0, continueOnError[e],
                                 CharByChar(run.input)).run.emitted
        IN /\ Projection(single) = Projection(chars)
           /\ IsPrefix(Projection(run.emitted), Projection(single))
           /\ run.pc = "done" => Projection(run.emitted) = Projection(single)

\* a chunk ended inside the second statement of a run: the first statement
\* has its event and the stream has more to deliver
C16_Witness ==
    /\ Len(runs[1]) = 1
    /\ runs[1][1].pc = "next"
    /\ Len(runs[1][1].emitted) = 1
    /\ trim(runs[1][1].buffer) # <<>>
    /\ Len(runs[1][1].input) < MaxChars

\* C17: every name declared by a statement that has an event without an
\* error, in this run or an earlier one, is in the context; an execution in
\* flight was started on the context as it is, so it sees every such name
\* with its hoisted value: a statement that reads a while a is in the
\* context computes b from the hoisted value; a name never leaves the
\* context, and a run() call or a step that finalizes a run without settling
\* an execution leaves the context as it is; a new run starts on the context
\* the earlier runs left
C17_ScopePersistence ==
    /\ [](\A e \in Executors :
             /\ HoistedNames(e) \subseteq DOMAIN context[e]
             /\ \A r \in RunIds(e) :
                   /\ Executing(runs[e][r]) =>
                         runs[e][r].exec.promise =
                             runInContext(transpile(trim(runs[e][r].buffer)).code,
                                          context[e], EmptyContext, <<>>)
                   /\ (r = Len(runs[e]) /\ runs[e][r].emitted = <<>>
                       /\ ~Executing(runs[e][r])) =>
                         runs[e][r].ctx0 = context[e])
    /\ [][\A e \in Executors :
             /\ DOMAIN context[e] \subseteq DOMAIN context'[e]
             /\ Len(runs'[e]) # Len(runs[e]) =>
                   /\ context'[e] = context[e]
                   /\ runs'[e][Len(runs'[e])].ctx0 = context[e]
             /\ \A r \in RunIds(e) :
                   /\ (runs[e][r].pc # "done" /\ runs'[e][r].pc = "done"
                       /\ ~Executing(runs[e][r])) => context'[e] = context[e]
                   /\ (/\ Executing(runs[e][r])
                       /\ runs[e][r].exec.stage = "settled"
                       /\ runs'[e][r].exec.stage = "returned"
                       /\ runs[e][r].exec.promise.state = "fulfilled"
                       /\ "a" \in DOMAIN context[e]
                       /\ "b" \in Declared(trim(runs[e][r].buffer))) =>
                          context'[e]["b"] = context[e]["a"] + 1]_vars

\* a statement of a second run is executing and has read the name the first
\* run hoisted: its promise will fulfil with b = a + 1
C17_Witness ==
    /\ Len(runs[1]) = 2
    /\ runs[1][1].pc = "done"
    /\ runs[1][2].pc \in {"exec", "flushexec"}
    /\ context[1] = ("a" :> 1)
    /\ runs[1][2].exec.promise.state = "fulfilled"
    /\ runs[1][2].exec.promise.value = ("b" :> 2)

\* the lines the claim gives the events of a run: the events are consecutive
\* spans of the input, each its statement after some whitespace; pos is the
\* number of characters before the span of the first event
RECURSIVE ExpectedLines(_, _, _)
ExpectedLines(input, events, pos) ==
    IF events = <<>> THEN <<>>
    ELSE LET rest == SubSeq(input, pos + 1, Len(input))
             start == pos + (Len(rest) - Len(trimStart(rest))) + 1
         IN <<1 + Count(SubSeq(input, 1, start - 1), "\n")>>
            \o ExpectedLines(input, Tail(events), start - 1 + Len(Head(events).statement))

\* C18: the line of every event, and of the error it carries, is 1 plus the
\* number of newlines of the current run's input before the first character
\* of the statement that is not whitespace; the input of earlier runs plays
\* no part
C18_LineNumbers ==
    \A e \in Executors : \A r \in RunIds(e) :
        LET lines == ExpectedLines(runs[e][r].input, runs[e][r].emitted, 0) IN
        \A i \in 1..Len(runs[e][r].emitted) :
            /\ runs[e][r].emitted[i].line = lines[i]
            /\ HasError(runs[e][r].emitted[i]) =>
                  runs[e][r].emitted[i].error.line = lines[i]

\* the first run read a newline; the second run read a newline and then a
\* statement, whose event is on line 2
C18_Witness ==
    /\ Len(runs[1]) = 2
    /\ runs[1][1].input = <<"\n">>
    /\ runs[1][2].input = <<"\n", "a">>
    /\ Len(runs[1][2].emitted) = 1
    /\ runs[1][2].emitted[1].line = 2

\* the stream of run r ends in this step
AtStreamEnd(e, r) ==
    /\ runs[e][r].pc = "next"
    /\ runs'[e][r].pc \in {"flushexec", "done"}
    /\ runs'[e][r].input = runs[e][r].input
    /\ runs'[e][r].taskError = NoThrown

\* the residual text of run r, and whether the error policy lets it be flushed
Residual(e, r) == trim(runs[e][r].buffer)

Flushable(e, r) ==
    /\ Residual(e, r) # <<>>
    /\ continueOnError[e] \/ runs[e][r].finalError = NoError

\* this step appends one event to run r: it is for the residual text at its
\* start line and sets the governing error if none was set
OneFlushEvent(e, r) ==
    LET event == runs'[e][r].emitted[Len(runs'[e][r].emitted)] IN
    /\ runs'[e][r].pc = "done"
    /\ Len(runs'[e][r].emitted) = Len(runs[e][r].emitted) + 1
    /\ IsPrefix(runs[e][r].emitted, runs'[e][r].emitted)
    /\ event.statement = Residual(e, r)
    /\ event.line = runs[e][r].statementStartLine
    /\ HasError(event) =>
          /\ event.error.line = runs[e][r].statementStartLine
          /\ runs'[e][r].finalError =
                IF runs[e][r].finalError = NoError THEN event.error
                ELSE runs[e][r].finalError
    /\ ~HasError(event) => runs'[e][r].finalError = runs[e][r].finalError

\* this step ends run r with one parse error event for the residual text;
\* nothing is executed
FlushParseError(e, r, message) ==
    LET event == runs'[e][r].emitted[Len(runs'[e][r].emitted)] IN
    /\ OneFlushEvent(e, r)
    /\ event.error.type = "parse"
    /\ event.error.message = message
    /\ event.logs = <<>>
    /\ context'[e] = context[e]

\* this step starts the execution of the residual text as the last statement
FlushExecutes(e, r) ==
    /\ runs'[e][r].pc = "flushexec"
    /\ runs'[e][r].emitted = runs[e][r].emitted
    /\ runs'[e][r].exec.line = runs[e][r].statementStartLine
    /\ runs'[e][r].exec.promise =
          runInContext(CodeOf(Residual(e, r), FALSE), context[e], EmptyContext, <<>>)

\* the execution of the residual text settles in this step: one event, not
\* a parse error, and the names hoisted if it succeeded
FlushSettles(e, r) ==
    LET event == runs'[e][r].emitted[Len(runs'[e][r].emitted)] IN
    /\ OneFlushEvent(e, r)
    /\ event.error.type # "parse"
    /\ ~HasError(event) => Declared(Residual(e, r)) \subseteq DOMAIN context'[e]
    /\ HasError(event) => context'[e] = context[e]

\* C19 as stated: residual text that passes the completeness check is
\* executed as the last statement and gets one event when its execution is
\* over, with its names hoisted if it succeeded; residual text that does not
\* pass gets the parse error "Incomplete statement"
C19_Original ==
    [][\A e \in Executors : \A r \in RunIds(e) :
          /\ (AtStreamEnd(e, r) /\ Flushable(e, r)) =>
                IF parseStatement(Residual(e, r)).complete
                THEN FlushExecutes(e, r)
                ELSE FlushParseError(e, r, "Incomplete statement")
          /\ (runs[e][r].pc = "flushexec" /\ runs'[e][r].pc # "flushexec") =>
                FlushSettles(e, r)]_vars

\* C19: when the stream ends with residual text that the error policy lets
\* be flushed, exactly one further event is produced, for that text at its
\* start line: text that passes the completeness check and the lowering is
\* executed as the last statement and its names are hoisted if it succeeds;
\* text that passes the completeness check but fails the lowering gets a
\* parse error with the lowering's message and is not executed; text that
\* fails the completeness check gets the parse error "Incomplete statement";
\* the error of the event becomes the governing error if none was set.
\* Without residual text the run ends with no further event
C19_EndOfStreamFlush ==
    [][\A e \in Executors : \A r \in RunIds(e) :
          /\ (AtStreamEnd(e, r) /\ Flushable(e, r)) =>
                IF ~parseStatement(Residual(e, r)).complete
                THEN FlushParseError(e, r, "Incomplete statement")
                ELSE IF ~transpile(Residual(e, r)).ok
                THEN FlushParseError(e, r, transpile(Residual(e, r)).error)
                ELSE FlushExecutes(e, r)
          /\ (AtStreamEnd(e, r) /\ ~Flushable(e, r)) =>
                /\ runs'[e][r].pc = "done"
                /\ runs'[e][r].emitted = runs[e][r].emitted
                /\ runs'[e][r].finalError = runs[e][r].finalError
          /\ (runs[e][r].pc = "flushexec" /\ runs'[e][r].pc # "flushexec") =>
                FlushSettles(e, r)]_vars

\* the stream ended after a; with the residual text p: the run has a second
\* event with the lowering's parse error, which is the result's error
C19_Witness ==
    /\ Len(runs[1]) = 1
    /\ runs[1][1].pc = "done"
    /\ runs[1][1].input = <<"a", ";", "p">>
    /\ Len(runs[1][1].emitted) = 2
    /\ runs[1][1].emitted[2].error.type = "parse"
    /\ runs[1][1].emitted[2].error.message = "Transform failed"
    /\ runs[1][1].result.error = runs[1][1].emitted[2].error

\* C20: a run whose stream has delivered nothing but whitespace, in any
\* number of chunks, has no event, no governing error, no logs and no
\* execution, and has left the context as it found it; when the stream ends
\* there, the result resolves with no error and empty logs and the event
\* sequence ends without an event
C20_EmptyOrWhitespaceStream ==
    \A e \in Executors : \A r \in RunIds(e) :
        StripWhitespace(runs[e][r].input) = <<>> =>
            /\ runs[e][r].emitted = <<>>
            /\ runs[e][r].received = <<>>
            /\ runs[e][r].finalError = NoError
            /\ runs[e][r].allLogs = <<>>
            /\ runs[e][r].exec = NoExec
            /\ runs[e][r].pc \in {"next", "done"}
            /\ ContextAfter(e, r) = runs[e][r].ctx0
            /\ runs[e][r].pc = "done" =>
                  /\ runs[e][r].resolved
                  /\ runs[e][r].result = [logs |-> <<>>, error |-> NoError]
                  /\ QueuedEvents(runs[e][r].eventQueue) = <<>>

\* a stream that yielded no chunk, then a stream that yielded two newlines,
\* have both ended: the consumer of
\* the second has seen its events end
C20_Witness ==
    /\ Len(runs[1]) = 2
    /\ runs[1][1].input = <<>>
    /\ runs[1][1].pc = "done"
    /\ runs[1][2].input = <<"\n", "\n">>
    /\ runs[1][2].pc = "done"
    /\ runs[1][2].gen = "done"
    /\ runs[1][2].lineNumber = 3

\* the background task of run r takes up after `await executeStatement` in
\* this step, and the statement has its event
Settles(e, r) ==
    /\ Executing(runs[e][r])
    /\ Len(runs'[e][r].emitted) > Len(runs[e][r].emitted)

\* the event Settles(e, r) appends for the statement that was executing
SettledEvent(e, r) == runs'[e][r].emitted[Len(runs[e][r].emitted) + 1]

\* C21: when the pipeline takes up after an execution that is still pending
\* (its timer has fired), the statement gets one event, with error type
\* timeout, message "Execution timeout" and the statement's line; the run
\* goes on without the execution: to the end of the run without
\* continueOnError and at the flush, to the rest of the input otherwise
C21_Timeout ==
    [][\A e \in Executors : \A r \in RunIds(e) :
          (Settles(e, r) /\ runs[e][r].exec.promise.state = "pending") =>
              /\ SettledEvent(e, r).statement = trim(runs[e][r].buffer)
              /\ SettledEvent(e, r).error.type = "timeout"
              /\ SettledEvent(e, r).error.message = "Execution timeout"
              /\ SettledEvent(e, r).error.line = runs[e][r].statementStartLine
              /\ \A j \in (Len(runs[e][r].emitted) + 2)..Len(runs'[e][r].emitted) :
                    runs'[e][r].emitted[j].statement # SettledEvent(e, r).statement
                       \/ runs'[e][r].emitted[j].error.type = "parse"
              /\ IF runs[e][r].pc = "flushexec" THEN runs'[e][r].pc = "done"
                 ELSE IF continueOnError[e]
                 THEN runs'[e][r].pc \in {"next", "exec"}
                 ELSE runs'[e][r].pc \in {"closing", "done"}]_vars

\* with continueOnError the first statement has timed out, its execution is
\* still going on, and the run is executing the next statement
C21_Witness ==
    /\ continueOnError[1]
    /\ Len(runs[1]) = 1
    /\ Len(runs[1][1].emitted) = 1
    /\ runs[1][1].emitted[1].error.type = "timeout"
    /\ runs[1][1].abandoned # <<>>
    /\ Executing(runs[1][1])

\* what the code of a statement can write: each of its units writes its own
\* name, and v writes "late" when it resumes
OwnOutput(statement) ==
    LET code == CodeOf(statement, FALSE) IN
    {code[k] : k \in 1..Len(code)} \cup (IF Count(code, "v") > 0 THEN {"late"} ELSE {})

\* C22: the logs of every event hold nothing but what the code of the
\* event's own statement wrote
C22_LogAttribution ==
    \A e \in Executors : \A r \in RunIds(e) :
        \A i \in 1..Len(runs[e][r].emitted) :
            \A k \in 1..Len(runs[e][r].emitted[i].logs) :
                runs[e][r].emitted[i].logs[k] \in OwnOutput(runs[e][r].emitted[i].statement)

\* C23: the background task of a run never fails: whatever a statement
\* throws or rejects with, `await executeStatement` returns, so the task's
\* promise has no error, and a finalized run has its result resolved
C23_NoFailureEscapes ==
    \A e \in Executors : \A r \in RunIds(e) :
        /\ runs[e][r].taskError = NoThrown
        /\ runs[e][r].pc = "done" => runs[e][r].resolved

\* C24: the events of a run are consecutive spans of its input, each the
\* trimmed text of one span, none empty; and when the background task leaves
\* the execution of a statement, that statement has got its event: exactly
\* the next event of the run, with the trimmed buffer as its statement
C24_OneEventPerStatement ==
    /\ [](\A e \in Executors : \A r \in RunIds(e) :
             /\ IsPrefix(StripWhitespace(StatementsOf(runs[e][r].emitted)),
                         StripWhitespace(runs[e][r].input))
             /\ \A i \in 1..Len(runs[e][r].emitted) :
                   /\ runs[e][r].emitted[i].statement # <<>>
                   /\ trim(runs[e][r].emitted[i].statement) = runs[e][r].emitted[i].statement)
    /\ [][\A e \in Executors : \A r \in RunIds(e) :
             (Executing(runs[e][r]) /\ (runs'[e][r].pc # runs[e][r].pc
                                        \/ runs'[e][r].emitted # runs[e][r].emitted)) =>
                 /\ Len(runs'[e][r].emitted) > Len(runs[e][r].emitted)
                 /\ SettledEvent(e, r).statement = trim(runs[e][r].buffer)]_vars

\* the fields of executor e and the closures of its runs
Instance(e) == <<running[e], context[e], console[e], runs[e], rejected[e]>>

\* C25: a step that changes anything of one executor instance (its running
\* flag, its context, the queues, logs and governing errors of its runs)
\* leaves every field of every other instance as it was, and a call of run()
\* is rejected only when the instance it is called on is running and
\* accepted whenever that instance is idle
C25_InstanceIndependence ==
    [][\A e \in Executors :
          /\ Instance(e)' # Instance(e) =>
                 \A f \in Executors \ {e} : Instance(f)' = Instance(f)
          /\ rejected'[e] > rejected[e] => running[e]
          /\ Len(runs'[e]) > Len(runs[e]) => ~running[e] /\ running'[e]]_vars

\* both instances have a run in progress, the second accepted while the first
\* was executing a statement, and neither has rejected a call
C25_Witness ==
    /\ \A e \in Executors : running[e] /\ runs[e] # <<>> /\ rejected[e] = 0
    /\ \E e \in Executors : Executing(runs[e][1]) /\ runs[e][1].emitted # <<>>
    /\ \E f \in Executors : runs[f][1].input = <<>>

\* the finish sentinels waiting in a queue
Sentinels(queue) == {i \in 1..Len(queue) : queue[i].done}

\* s is what is left of t once items have been taken from its front
IsSuffixOf(s, t) ==
    Len(s) <= Len(t) /\ SubSeq(t, Len(t) - Len(s) + 1, Len(t)) = s

\* C26: a run is finalized in one step, once: before it the run's instance
\* is running, the queue holds no sentinel, the generator has not returned
\* and the result is unresolved; the step clears the running flag, appends
\* the sentinel behind everything queued and resolves the result with the
\* aggregated logs and the governing error; after it the sentinel is the last
\* item of the queue until the consumer takes it, and nothing is appended,
\* no event is produced and the result does not change
C26_FinalizationAtomic ==
    /\ [](\A e \in Executors : \A r \in RunIds(e) :
             LET run == runs[e][r] IN
             /\ run.resolved <=> run.pc = "done"
             /\ run.pc # "done" =>
                   /\ running[e]
                   /\ Sentinels(run.eventQueue) = {}
                   /\ run.gen # "done"
                   /\ run.result = NoResult
             /\ run.pc = "done" =>
                   /\ r = Len(runs[e]) => ~running[e]
                   /\ run.result = [logs |-> run.allLogs, error |-> run.finalError]
                   /\ \/ run.gen = "done" /\ run.eventQueue = <<>>
                      \/ run.gen # "done" /\ Sentinels(run.eventQueue) = {Len(run.eventQueue)})
    /\ [][\A e \in Executors : \A r \in RunIds(e) :
             /\ (runs[e][r].pc # "done" /\ runs'[e][r].pc = "done") =>
                   /\ ~running'[e]
                   /\ \E events \in {runs'[e][r].emitted} :
                         /\ IsPrefix(runs[e][r].emitted, events)
                         /\ Len(runs'[e][r].eventQueue) =
                                Len(runs[e][r].eventQueue) + 1
                                    + Len(events) - Len(runs[e][r].emitted)
                   /\ runs'[e][r].eventQueue[Len(runs'[e][r].eventQueue)] = DoneItem
             /\ runs[e][r].pc = "done" =>
                   /\ runs'[e][r].pc = "done"
                   /\ runs'[e][r].result = runs[e][r].result
                   /\ runs'[e][r].emitted = runs[e][r].emitted
                   /\ IsSuffixOf(runs'[e][r].eventQueue, runs[e][r].eventQueue)]_vars

\* a finalized run whose events nobody has pulled: two events and the
\* sentinel are queued, the result carries logs and an error, and the
\* instance is idle
C26_Witness ==
    \E e \in Executors : \E r \in RunIds(e) :
        /\ runs[e][r].pc = "done" /\ runs[e][r].resolved /\ ~running[e]
        /\ Len(runs[e][r].eventQueue) = 3
        /\ runs[e][r].gen = "idle"
        /\ runs[e][r].result.logs # <<>>
        /\ runs[e][r].result.error # NoError

\* C27: the timer of withTimeout is pending exactly while withTimeout awaits
\* the race of a statement's execution; the step in which the race is over,
\* on success, on a thrown error and on the timeout itself, clears the
\* timer, so no timer is pending while no statement is executing; and a
\* timeout event is built only after such a race, for the statement that was
\* executing and whose execution was still pending, never for an earlier
\* event
C27_TimerHygiene ==
    /\ [](\A e \in Executors : \A r \in RunIds(e) :
             /\ runs[e][r].timeoutId = "pending" <=> Racing(runs[e][r])
             /\ ~Executing(runs[e][r]) => runs[e][r].timeoutId # "pending"
             /\ runs[e][r].timeoutId \in {"none", "pending", "cleared"})
    /\ [][\A e \in Executors : \A r \in RunIds(e) :
             /\ \A i \in 1..Len(runs[e][r].emitted) :
                    runs'[e][r].emitted[i] = runs[e][r].emitted[i]
             /\ \A i \in (Len(runs[e][r].emitted) + 1)..Len(runs'[e][r].emitted) :
                    runs'[e][r].emitted[i].error.type = "timeout" =>
                        /\ Executing(runs[e][r])
                        /\ runs[e][r].exec.stage = "returned"
                        /\ runs[e][r].exec.promise.state = "pending"
                        /\ runs[e][r].timeoutId = "cleared"
                        /\ i = Len(runs[e][r].emitted) + 1
                        /\ runs'[e][r].emitted[i].statement = trim(runs[e][r].buffer)
             /\ (Racing(runs[e][r]) /\ runs'[e][r].exec # runs[e][r].exec) =>
                    /\ runs'[e][r].timeoutId = "cleared"
                    /\ runs'[e][r].exec.stage = "settled"
             /\ (Executing(runs[e][r]) /\ runs'[e][r].emitted # runs[e][r].emitted
                    /\ ~Executing(runs'[e][r])) =>
                    runs'[e][r].timeoutId = "cleared"]_vars

\* a run between statements, after one statement that succeeded and one that
\* threw: both races are over and no timer is pending
C27_Witness ==
    \E e \in Executors : \E r \in RunIds(e) :
        /\ Len(runs[e][r].emitted) = 2
        /\ ~HasError(runs[e][r].emitted[1])
        /\ runs[e][r].emitted[2].error.type = "runtime"
        /\ ~Executing(runs[e][r])
        /\ runs[e][r].timeoutId = "cleared"

\* C28: the event of a statement whose execution failed has error type
\* timeout exactly when the execution was still pending at the moment the
\* race was decided (the timer fired); an execution that settled by throwing
\* gets error type runtime and the thrown value as its `thrown`
C28_FailureClassification ==
    [][\A e \in Executors : \A r \in RunIds(e) :
          (Settles(e, r) /\ runs[e][r].exec.promise.state # "fulfilled") =>
              /\ SettledEvent(e, r).error.type = "timeout" <=>
                     runs[e][r].exec.promise.state = "pending"
              /\ runs[e][r].exec.promise.state = "rejected" =>
                     /\ SettledEvent(e, r).error.type = "runtime"
                     /\ SettledEvent(e, r).error.thrown = runs[e][r].exec.promise.reason]_vars

\* the Lowerer fails on a statement that the completeness check lets through
LoweringFails(statement) ==
    parseStatement(statement).complete /\ ~transpile(statement).ok

\* C29: an event's statement is one the Lowerer fails on exactly when the
\* event carries a parse-typed error with the Lowerer's message; such an
\* event has empty logs and, as its line and the line of its error, the line
\* the statement starts on.  The statement is not executed: the console of
\* the context is never a sink installed for it, and a step in which the run
\* was not waiting for an execution and which produces events leaves the
\* Execution Context and the aggregated logs as they were; in a step that
\* ends an execution, they change by what that execution hoisted and wrote
C29_LoweringFailure ==
    /\ [](\A e \in Executors : \A r \in RunIds(e) :
             LET events == runs[e][r].emitted
                 lines == ExpectedLines(runs[e][r].input, events, 0)
             IN
             /\ \A i \in 1..Len(events) :
                   /\ LoweringFails(events[i].statement) <=>
                          /\ events[i].error.type = "parse"
                          /\ events[i].error.message = transpile(events[i].statement).error
                          /\ events[i].error.message # ""
                   /\ LoweringFails(events[i].statement) =>
                          /\ events[i].logs = <<>>
                          /\ events[i].error.thrown =
                                 ErrorValue("Error", events[i].error.message)
                          /\ events[i].line = lines[i]
                          /\ events[i].error.line = lines[i]
                          /\ console[e] # [run |-> r, statement |-> i]
             /\ Executing(runs[e][r]) => ~LoweringFails(trim(runs[e][r].buffer)))
    /\ [][\A e \in Executors : \A r \in RunIds(e) :
             runs'[e][r].emitted # runs[e][r].emitted =>
                 IF Executing(runs[e][r])
                 THEN /\ runs'[e][r].allLogs = runs[e][r].allLogs \o SettledEvent(e, r).logs
                      /\ context'[e] = executeStatement_hoist(runs[e][r].exec, context[e])
                 ELSE /\ runs'[e][r].allLogs = runs[e][r].allLogs
                      /\ context'[e] = context[e]]_vars

\* the first run declared a name; in the second run the Lowerer has failed
\* on the only statement: the event is a parse error on line 1, the context
\* is as the first run left it, nothing was logged, and the error governs
C29_Witness ==
    /\ Len(runs[1]) = 2
    /\ runs[1][1].pc = "done"
    /\ Len(runs[1][2].emitted) = 1
    /\ LoweringFails(runs[1][2].emitted[1].statement)
    /\ runs[1][2].emitted[1].error.type = "parse"
    /\ runs[1][2].emitted[1].line = 1
    /\ runs[1][2].allLogs = <<>>
    /\ runs[1][2].finalError = runs[1][2].emitted[1].error
    /\ context[1] = ("a" :> 1)
    /\ context[1] = runs[1][2].ctx0

\* C30: when the background task takes up after an execution that failed (the
\* script threw, or it was still pending when its timer fired), the statement
\* gets its event in that step, with a runtime or timeout error and, as its
\* logs, everything the statement's sink had received; and the aggregated
\* logs grow by exactly these logs
C30_LogsOnFailure ==
    [][\A e \in Executors : \A r \in RunIds(e) :
          (/\ Executing(runs[e][r])
           /\ runs[e][r].exec.promise.state \in {"rejected", "pending"}
           /\ \/ runs'[e][r].pc # runs[e][r].pc
              \/ runs'[e][r].emitted # runs[e][r].emitted) =>
              /\ Len(runs'[e][r].emitted) > Len(runs[e][r].emitted)
              /\ SettledEvent(e, r).error.type \in {"runtime", "timeout"}
              /\ SettledEvent(e, r).logs = runs[e][r].exec.promise.logs
              /\ runs'[e][r].allLogs =
                     runs[e][r].allLogs \o runs[e][r].exec.promise.logs]_vars

\* executeStatement resumes after its await in this step
Returns(e, r) ==
    /\ Executing(runs[e][r])
    /\ runs[e][r].exec.stage = "settled"
    /\ runs'[e][r].exec.stage = "returned"

\* C31: the context of an executor changes only in the step in which
\* executeStatement resumes and finds the execution of its statement
\* fulfilled: the context is the old one with the declared names set to the
\* values the execution yielded, and the event the statement then gets has
\* no error.  A statement whose event has an error has hoisted nothing, and
\* a step in which an execution the pipeline stopped waiting for goes on
\* leaves the context as it is; so a name declared only by statements that
\* timed out is never in the context
C31_HoistOnlyOnSuccess ==
    /\ [][\A e \in Executors :
             /\ context'[e] # context[e] =>
                    \E r \in RunIds(e) :
                        /\ Returns(e, r)
                        /\ runs[e][r].exec.promise.state = "fulfilled"
                        /\ DOMAIN context'[e] =
                               DOMAIN context[e] \cup Declared(trim(runs[e][r].buffer))
                        /\ \A n \in DOMAIN context'[e] :
                               context'[e][n] =
                                   IF n \in Declared(trim(runs[e][r].buffer))
                                   THEN runs[e][r].exec.promise.value[n]
                                   ELSE context[e][n]
             /\ \A r \in RunIds(e) :
                   /\ (Returns(e, r) /\ runs[e][r].exec.promise.state # "fulfilled") =>
                          context'[e] = context[e]
                   /\ (Returns(e, r) /\ runs[e][r].exec.promise.state = "fulfilled") =>
                          Declared(trim(runs[e][r].buffer)) \subseteq DOMAIN context'[e]
                   /\ Settles(e, r) =>
                          /\ context'[e] = context[e]
                          /\ HasError(SettledEvent(e, r)) =>
                                 runs[e][r].exec.promise.state # "fulfilled"
                          /\ ~HasError(SettledEvent(e, r)) =>
                                 /\ runs[e][r].exec.promise.state = "fulfilled"
                                 /\ Declared(SettledEvent(e, r).statement)
                                        \subseteq DOMAIN context[e]
                   /\ runs'[e][r].abandoned # runs[e][r].abandoned =>
                          context'[e] = context[e]]_vars
    /\ [](\A e \in Executors : "v" \notin DOMAIN context[e])

\* a statement that declares v has timed out and its execution has since
\* gone on and completed; the next statement has succeeded and hoisted a,
\* and v is not in the context
C31_Witness ==
    \E r \in RunIds(1) :
        /\ Len(runs[1][r].emitted) = 2
        /\ runs[1][r].emitted[1].error.type = "timeout"
        /\ "v" \in Declared(runs[1][r].emitted[1].statement)
        /\ runs[1][r].abandoned = <<>>
        /\ ~HasError(runs[1][r].emitted[2])
        /\ context[1] = ("a" :> 1)

\* the executions of executor e whose code is live against the context:
\* the one the pipeline awaits, and those it stopped waiting for that have
\* not completed
RECURSIVE LiveStatements(_)
LiveStatements(rs) ==
    IF rs = <<>> THEN 0
    ELSE (IF Executing(Head(rs)) THEN 1 ELSE 0) + Len(Head(rs).abandoned)
         + LiveStatements(Tail(rs))

\* C32: at any time at most one statement's code is live against the context
\* of an executor, counting the executions abandoned after a timeout
C32_OneLiveStatement ==
    \A e \in Executors : LiveStatements(runs[e]) <= 1

\* the text s read up to and including its k-th character, trimmed
TrimmedPrefix(s, k) == trim(SubSeq(s, 1, k))

\* C33: a statement is accepted only at a terminator: the buffer of an
\* execution that starts ends with ";" and is a complete statement, and
\* every event produced while the stream is being read is for a text that
\* ends with ";"; only the end of the stream tries a residual text without
\* one.  Every text that ended with a terminator while the buffer was being
\* built and is still in the buffer failed the completeness check: it got
\* no event and stayed in the buffer.  A step that reads a chunk and accepts
\* nothing appends the chunk to the buffer and produces no event, and the
\* buffer loses text only in a step that produces an event
C33_BoundaryScanning ==
    /\ [](\A e \in Executors : \A r \in RunIds(e) :
             LET buffer == runs[e][r].buffer IN
             /\ \A k \in 1..Len(buffer) :
                   (/\ buffer[k] = ";"
                    /\ TrimmedPrefix(buffer, k) # <<>>
                    /\ k < Len(buffer) \/ runs[e][r].pc = "next") =>
                       ~parseStatement(TrimmedPrefix(buffer, k)).complete
             /\ runs[e][r].pc = "exec" =>
                   /\ buffer[Len(buffer)] = ";"
                   /\ parseStatement(trim(buffer)).complete)
    /\ [][\A e \in Executors : \A r \in RunIds(e) :
             /\ (runs[e][r].pc = "exec" \/ runs'[e][r].input # runs[e][r].input) =>
                   \A i \in (Len(runs[e][r].emitted) + 1)..Len(runs'[e][r].emitted) :
                       LET statement == runs'[e][r].emitted[i].statement IN
                       /\ statement[Len(statement)] = ";"
                       /\ parseStatement(statement).complete
             /\ (runs[e][r].pc = "next" /\ runs'[e][r].pc = "next"
                 /\ runs'[e][r].emitted = runs[e][r].emitted) =>
                   /\ IsPrefix(runs[e][r].buffer, runs'[e][r].buffer)
                   /\ IsPrefix(runs[e][r].input, runs'[e][r].input)
                   /\ Len(runs'[e][r].buffer) - Len(runs[e][r].buffer) =
                          Len(runs'[e][r].input) - Len(runs[e][r].input)
                   /\ IsSuffixOf(runs'[e][r].buffer, runs'[e][r].input)
             /\ ~IsPrefix(runs[e][r].buffer, runs'[e][r].buffer) =>
                   Len(runs'[e][r].emitted) > Len(runs[e][r].emitted)]_vars

\* a terminator inside an unclosed string literal has been read and one
\* more character after it: no event, the whole input is in the buffer
C33_Witness ==
    \E e \in Executors : \E r \in RunIds(e) :
        /\ runs[e][r].buffer = <<"q", ";", "a">>
        /\ runs[e][r].input = runs[e][r].buffer
        /\ runs[e][r].pc = "next"
        /\ runs[e][r].emitted = <<>>

\* the message the claim derives from a thrown value
DerivedMessage(thrown) ==
    IF thrown.message # "" THEN thrown.message ELSE String(thrown)

\* C34: when the background task takes up after an execution that threw, the
\* statement has its event in that step, and unless the event is the
\* timeout's its message is the thrown value's message if that is a
\* non-empty text and the stringification of the thrown value otherwise
C34_MessageDerivation ==
    [][\A e \in Executors : \A r \in RunIds(e) :
          (/\ Executing(runs[e][r])
           /\ runs[e][r].exec.promise.state = "rejected"
           /\ \/ runs'[e][r].pc # runs[e][r].pc
              \/ runs'[e][r].emitted # runs[e][r].emitted) =>
              /\ Len(runs'[e][r].emitted) > Len(runs[e][r].emitted)
              /\ SettledEvent(e, r).error.thrown = runs[e][r].exec.promise.reason
              /\ SettledEvent(e, r).error.type = "runtime" =>
                     SettledEvent(e, r).error.message =
                         DerivedMessage(runs[e][r].exec.promise.reason)]_vars

\* the stream of run r raises its error in this step
StreamFails(e, r) ==
    /\ runs[e][r].taskError = NoThrown
    /\ runs'[e][r].taskError = StreamError

\* C35: the step in which the stream raises an error, from its next() or
\* from the return() that closes it after an early return, finalizes the run: the
\* instance stops running, the sentinel is appended behind what is queued,
\* the result resolves with the logs and the governing error accumulated so
\* far; no event is produced, the residual buffer is neither executed nor
\* reported, the context is unchanged, and the stream's error is not the
\* result's error
C35_StreamFailure ==
    /\ [][\A e \in Executors : \A r \in RunIds(e) :
             StreamFails(e, r) =>
                 /\ runs[e][r].pc \in {"next", "closing"}
                 /\ runs'[e][r].pc = "done"
                 /\ ~running'[e]
                 /\ runs'[e][r].resolved
                 /\ runs'[e][r].result = [logs |-> runs[e][r].allLogs,
                                          error |-> runs[e][r].finalError]
                 /\ Len(runs'[e][r].eventQueue) = Len(runs[e][r].eventQueue) + 1
                 /\ IsPrefix(runs[e][r].eventQueue, runs'[e][r].eventQueue)
                 /\ runs'[e][r].eventQueue[Len(runs'[e][r].eventQueue)] = DoneItem
                 /\ runs'[e][r].emitted = runs[e][r].emitted
                 /\ runs'[e][r].buffer = runs[e][r].buffer
                 /\ runs'[e][r].exec = NoExec
                 /\ context'[e] = context[e]]_vars
    /\ [](\A e \in Executors : \A r \in RunIds(e) :
             /\ runs[e][r].result.error.thrown # StreamError
             /\ runs[e][r].finalError.thrown # StreamError
             /\ runs[e][r].taskError = StreamError =>
                   /\ runs[e][r].pc = "done"
                   /\ runs[e][r].resolved)

\* under continueOnError the stream has failed after a statement that threw
\* and with text left in the buffer: the result has the statement's logs
\* and error, and the text got no event
C35_Witness ==
    \E e \in Executors : \E r \in RunIds(e) :
        /\ runs[e][r].taskError = StreamError
        /\ Len(runs[e][r].emitted) = 1
        /\ runs[e][r].result.logs # <<>>
        /\ runs[e][r].result.error.type = "runtime"
        /\ trim(runs[e][r].buffer) = <<"a">>
        /\ runs[e][r].resolved /\ ~running[e]

\* C36: the error of an event has the event's line; the lines of a run's
\* events are at least 1 and never decrease from one event to the next; the
\* line the statement in the buffer starts on is at least 1 and at most the
\* line the scan has reached, and no event is on a later line than that
C36_LinesMonotonic ==
    \A e \in Executors : \A r \in RunIds(e) :
        LET events == runs[e][r].emitted IN
        /\ 1 <= runs[e][r].statementStartLine
        /\ runs[e][r].statementStartLine <= runs[e][r].lineNumber
        /\ Executing(runs[e][r]) => runs[e][r].exec.line = runs[e][r].statementStartLine
        /\ \A i \in 1..Len(events) :
              /\ HasError(events[i]) => events[i].error.line = events[i].line
              /\ ~HasError(events[i]) => events[i].error.line = 0
              /\ 1 <= events[i].line
              /\ events[i].line <= runs[e][r].statementStartLine
              /\ i < Len(events) => events[i].line <= events[i + 1].line

\* a statement on line 1 has succeeded and a statement on line 2 has failed:
\* the second event and its error are on line 2
C36_Witness ==
    \E e \in Executors : \E r \in RunIds(e) :
        /\ Len(runs[e][r].emitted) = 2
        /\ runs[e][r].emitted[1].line = 1
        /\ runs[e][r].emitted[2].line = 2
        /\ runs[e][r].emitted[2].error.type = "runtime"
        /\ runs[e][r].emitted[2].error.line = 2

\* C37: every event without an error that is in a queue or has been handed
\* to a consumer is for a statement whose declared names are in the context;
\* in the step that appends such an event the context already holds, for
\* each declared name, the value the execution yielded, and a statement
\* that starts executing in the same step runs against that context
C37_HoistBeforeEmit ==
    /\ [](\A e \in Executors : \A r \in RunIds(e) :
             /\ \A i \in 1..Len(runs[e][r].eventQueue) :
                   LET item == runs[e][r].eventQueue[i] IN
                   (~item.done /\ ~HasError(item.event)) =>
                       Declared(item.event.statement) \subseteq DOMAIN context[e]
             /\ \A i \in 1..Len(runs[e][r].received) :
                   ~HasError(runs[e][r].received[i]) =>
                       Declared(runs[e][r].received[i].statement) \subseteq DOMAIN context[e])
    /\ [][\A e \in Executors : \A r \in RunIds(e) :
             (Settles(e, r) /\ ~HasError(SettledEvent(e, r))) =>
                 /\ \A n \in Declared(SettledEvent(e, r).statement) :
                       /\ n \in DOMAIN context'[e]
                       /\ context'[e][n] = runs[e][r].exec.promise.value[n]
                 /\ \E i \in 1..Len(runs'[e][r].eventQueue) :
                       /\ ~runs'[e][r].eventQueue[i].done
                       /\ runs'[e][r].eventQueue[i].event = SettledEvent(e, r)
                 /\ Executing(runs'[e][r]) =>
                       runs'[e][r].exec.promise =
                           runInContext(transpile(trim(runs'[e][r].buffer)).code,
                                        context'[e], EmptyContext, <<>>)]_vars

\* the event of a statement that declared a is still in the queue, a is in
\* the context, and the next statement has read it
C37_Witness ==
    \E e \in Executors : \E r \in RunIds(e) :
        /\ Len(runs[e][r].eventQueue) = 1
        /\ ~runs[e][r].eventQueue[1].done
        /\ ~HasError(runs[e][r].eventQueue[1].event)
        /\ Declared(runs[e][r].eventQueue[1].event.statement) = {"a"}
        /\ runs[e][r].ctx0 = EmptyContext
        /\ context[e] = ("a" :> 1)
        /\ Executing(runs[e][r])
        /\ runs[e][r].exec.promise.state = "fulfilled"
        /\ runs[e][r].exec.promise.value = ("b" :> 2)

\* C38: a run() call adds one closure with an empty queue, no waiter, no
\* logs and no error, and leaves the closures of the earlier runs as they
\* are; at every moment what the consumer of a run has received and what is
\* queued for it are that run's events, in order; and the logs of a run's
\* result hold nothing but what the statements of its own input wrote, and
\* its error is the error of one of its own events
C38_PerRunQueues ==
    /\ [][\A e \in Executors :
             Len(runs'[e]) > Len(runs[e]) =>
                 /\ Len(runs'[e]) = Len(runs[e]) + 1
                 /\ \A r \in RunIds(e) : runs'[e][r] = runs[e][r]
                 /\ LET new == runs'[e][Len(runs'[e])] IN
                    /\ new.eventQueue = <<>>
                    /\ ~new.queueResolver
                    /\ new.allLogs = <<>>
                    /\ new.finalError = NoError
                    /\ ~new.resolved]_vars
    /\ [](\A e \in Executors : \A r \in RunIds(e) :
             /\ runs[e][r].received \o QueuedEvents(runs[e][r].eventQueue)
                   = runs[e][r].emitted
             /\ \A k \in 1..Len(runs[e][r].allLogs) :
                   runs[e][r].allLogs[k] \in OwnOutput(runs[e][r].input)
             /\ runs[e][r].resolved =>
                   /\ runs[e][r].result.logs = runs[e][r].allLogs
                   /\ runs[e][r].result.error # NoError =>
                         \E i \in 1..Len(runs[e][r].emitted) :
                             runs[e][r].emitted[i].error = runs[e][r].result.error)

\* C39: every step that starts the execution of a statement leaves the
\* context's console bound to the sink of that statement, a value that is
\* neither the console the executor was given at construction or a statement
\* hoisted, nor the sink of any earlier statement; while the statement is
\* executing the binding stays that sink, until the hoist of the statement
\* itself writes the name; and a statement that reaches
\* execution and does not itself declare console has its output captured
\* even when an earlier statement declared the name
C39_ConsoleReplaced ==
    /\ [][\A e \in Driven : \A r \in RunIds(e) :
             (/\ Racing(runs'[e][r])
              /\ \/ ~Executing(runs[e][r])
                 \/ Len(runs'[e][r].emitted) > Len(runs[e][r].emitted)) =>
                 /\ console'[e] = [run |-> r,
                                   statement |-> Len(runs'[e][r].emitted) + 1]
                 /\ console'[e] # console[e]
                 /\ console'[e] # UserConsole]_vars
    /\ [](\A e \in Driven : \A r \in RunIds(e) :
             /\ (Executing(runs[e][r]) /\ runs[e][r].exec.stage # "returned") =>
                   console[e] = [run |-> r,
                                 statement |-> Len(runs[e][r].emitted) + 1]
             /\ (Executing(runs[e][r]) /\ runs[e][r].exec.stage = "returned") =>
                   console[e] =
                       IF /\ "console" \in Declared(trim(runs[e][r].buffer))
                          /\ withTimeout(runs[e][r].exec.promise).state = "fulfilled"
                       THEN UserConsole
                       ELSE [run |-> r, statement |-> Len(runs[e][r].emitted) + 1]
             /\ \A i \in 1..Len(runs[e][r].emitted) :
                   LET ev == runs[e][r].emitted[i] IN
                   (/\ ev.error.type # "parse"
                    /\ Count(ev.statement, "c") = 0
                    /\ Head(ev.statement) = "a") =>
                       ev.logs # <<>> /\ Head(ev.logs) = "a")

\* the first statement of a run declared console and was hoisted, and the
\* next statement, which logs, is executing with its own sink installed
C39_Witness ==
    /\ Len(runs[1]) >= 1
    /\ Executing(runs[1][1])
    /\ Len(runs[1][1].emitted) = 1
    /\ Count(runs[1][1].emitted[1].statement, "c") > 0
    /\ runs[1][1].emitted[1].error = NoError
    /\ runs[1][1].exec.promise.logs = <<"a">>
    /\ console[1] = [run |-> 1, statement |-> 2]

\* C40: whenever control is yielded, a registered waiter means the queue is
\* empty and the generator is suspended in waitForEvent, and a generator
\* suspended there has its waiter registered; an append while a waiter is
\* registered clears the slot and resumes the generator, and leaves the slot
\* empty otherwise; the generator resumes only with an item to shift, and
\* every shift takes the head of a queue that is not empty
C40_WaiterSlot ==
    /\ [](\A e \in Executors : \A r \in RunIds(e) :
             /\ runs[e][r].queueResolver =>
                   runs[e][r].eventQueue = <<>> /\ runs[e][r].gen = "waiting"
             /\ runs[e][r].gen = "waiting" => runs[e][r].queueResolver
             /\ runs[e][r].gen = "ready" => runs[e][r].eventQueue # <<>>)
    /\ [][\A e \in Executors : \A r \in RunIds(e) :
             /\ Len(runs'[e][r].eventQueue) > Len(runs[e][r].eventQueue) =>
                   /\ ~runs'[e][r].queueResolver
                   /\ runs[e][r].queueResolver => runs'[e][r].gen = "ready"
                   /\ ~runs[e][r].queueResolver => runs'[e][r].gen = runs[e][r].gen
             /\ Len(runs'[e][r].eventQueue) < Len(runs[e][r].eventQueue) =>
                   /\ runs[e][r].gen = "ready"
                   /\ runs[e][r].eventQueue # <<>>
                   /\ runs'[e][r].eventQueue = Tail(runs[e][r].eventQueue)]_vars

\* the consumer has received an event and is suspended again with its
\* waiter registered, while a statement whose event will wake it executes
C40_Witness ==
    /\ Len(runs[1]) >= 1
    /\ runs[1][1].gen = "waiting"
    /\ runs[1][1].queueResolver
    /\ runs[1][1].eventQueue = <<>>
    /\ runs[1][1].received # <<>>
    /\ Executing(runs[1][1])

====
